---- MODULE Spec2Model ----
(***************************************************************************)
(* Model of the printer-connection layer of spoolbuddy:                    *)
(*   backend/mqtt/client.py   PrinterConnection, PrinterManager            *)
(*   backend/models.py        PrinterState, AmsUnit, AmsTray               *)
(* Python values are modelled as tagged JSON values (what json.loads       *)
(* returns); Python None is JNull.  A call that can raise is modelled by a *)
(* result record with an "exc" field.                                      *)
(***************************************************************************)
EXTENDS Integers, Sequences, FiniteSets, TLC

----------------------------------------------------------------------------
(* Python / JSON values *)

JNull == [k |-> "null"]
JInt(i) == [k |-> "int", i |-> i]
JStr(s) == [k |-> "str", s |-> s]
\* A float, kept in thousandths: JFloat(20) is 0.02.
JFloat(m) == [k |-> "float", m |-> m]
JArr(e) == [k |-> "arr", e |-> e]
JObj(f) == [k |-> "obj", f |-> f]

EmptyObj == JObj(<<>>)

\* `key in v`: a TypeError for a value that is no container.
InRaises(v) == v.k \notin {"obj", "arr", "str"}

\* `key in v` for a dict (key membership), a list (element membership) and a
\* string (the strings of the model never properly contain a key).
In(key, v) ==
    CASE v.k = "obj" -> key \in DOMAIN v.f
      [] v.k = "arr" -> \E i \in DOMAIN v.e : v.e[i] = JStr(key)
      [] v.k = "str" -> v.s = key
      [] OTHER -> FALSE

\* `v[key]` after `key in v` held: only a dict can be indexed by a string.
IndexRaises(v) == v.k # "obj"
Index(v, key) == v.f[key]

\* `v.get(key, default)`: an AttributeError for anything but a dict.
GetRaises(v) == v.k # "obj"
Get(v, key, default) == IF key \in DOMAIN v.f THEN v.f[key] ELSE default

\* bool(v) of a Python value.
Truthy(v) ==
    CASE v.k = "null" -> FALSE
      [] v.k = "int" -> v.i # 0
      [] v.k = "float" -> v.m # 0
      [] v.k = "str" -> v.s # ""
      [] v.k = "arr" -> Len(v.e) > 0
      [] v.k = "obj" -> DOMAIN v.f # {}

\* `for x in v`: the items iterated, or a TypeError.
IterRaises(v) == v.k \in {"null", "int", "float"}
RECURSIVE KeySeq(_)
KeySeq(keys) ==
    IF keys = {} THEN <<>>
    ELSE LET x == CHOOSE y \in keys : TRUE
         IN <<JStr(x)>> \o KeySeq(keys \ {x})

\* A list yields its elements, a dict its keys, a string its characters (kept
\* as one string item: every use of an item fails alike on any string).
IterItems(v) ==
    CASE v.k = "arr" -> v.e
      [] v.k = "str" -> IF v.s = "" THEN <<>> ELSE <<JStr(v.s)>>
      [] v.k = "obj" -> KeySeq(DOMAIN v.f)
      [] OTHER -> <<>>

\* int(s) of the integer numerals the model's reports use; any other string is
\* a ValueError ("25.0" is one: int() takes no decimal point).
IntText == [s \in {"0", "1", "30", "128", "512"} |->
              CASE s = "0" -> 0 [] s = "1" -> 1 [] s = "30" -> 30 [] s = "128" -> 128
                [] s = "512" -> 512]

\* float(s), in thousandths, of the numerals the model's reports use.
FloatText == [s \in {"0", "1", "30", "25.0", "0.02"} |->
                CASE s = "0" -> 0 [] s = "1" -> 1000 [] s = "30" -> 30000
                  [] s = "25.0" -> 25000 [] s = "0.02" -> 20]

\* int(m / 1000) truncates toward zero.
Trunc(m) == IF m >= 0 THEN m \div 1000 ELSE -((-m) \div 1000)

\* PrinterConnection._safe_int
_safe_int(value, default) ==
    CASE value.k = "null" -> default
      [] value.k = "int" -> value
      [] value.k = "float" -> JInt(Trunc(value.m))
      [] value.k = "str" ->
           IF value.s \in DOMAIN IntText THEN JInt(IntText[value.s]) ELSE default
      [] OTHER -> default

\* PrinterConnection._safe_float
_safe_float(value, default) ==
    CASE value.k = "null" -> default
      [] value.k = "int" -> JFloat(value.i * 1000)
      [] value.k = "float" -> value
      [] value.k = "str" ->
           IF value.s \in DOMAIN FloatText THEN JFloat(FloatText[value.s]) ELSE default
      [] OTHER -> default

----------------------------------------------------------------------------
(* models.py *)

\* pydantic accepts None or a str for Optional[str]; anything else is a
\* ValidationError.
OptStrOk(v) == v.k \in {"null", "str"}

AmsTray(ams_id, tray_id, tray_type, tray_color, tray_info_idx, k_value, nozzle_temp_min, nozzle_temp_max) ==
    [ams_id |-> ams_id, tray_id |-> tray_id, tray_type |-> tray_type,
     tray_color |-> tray_color, tray_info_idx |-> tray_info_idx,
     k_value |-> k_value, nozzle_temp_min |-> nozzle_temp_min,
     nozzle_temp_max |-> nozzle_temp_max]

AmsUnit(id, humidity, temperature, extruder, trays) ==
    [id |-> id, humidity |-> humidity, temperature |-> temperature,
     extruder |-> extruder, trays |-> trays]

PrinterState ==
    [gcode_state |-> JNull, print_progress |-> JNull, layer_num |-> JNull,
     total_layer_num |-> JNull, subtask_name |-> JNull, ams_units |-> <<>>,
     vt_tray |-> JNull]

----------------------------------------------------------------------------
(* PrinterConnection: the telemetry decoder *)

Ok(v) == [exc |-> FALSE, val |-> v]
Raise == [exc |-> TRUE, val |-> JNull]

\* PrinterConnection._parse_tray
_parse_tray(tray_data, ams_id, tray_id) ==
    IF ~Truthy(tray_data) THEN Ok(JNull)
    ELSE IF GetRaises(tray_data) THEN Raise
    ELSE LET tray_type == Get(tray_data, "tray_type", JNull)
             tray_color == Get(tray_data, "tray_color", JNull)
             tray_info_idx == Get(tray_data, "tray_info_idx", JNull)
         IN IF ~(OptStrOk(tray_type) /\ OptStrOk(tray_color) /\ OptStrOk(tray_info_idx))
              THEN Raise
              ELSE Ok(AmsTray(ams_id, tray_id, tray_type, tray_color, tray_info_idx,
                              _safe_float(Get(tray_data, "k", JNull), JNull),
                              _safe_int(Get(tray_data, "nozzle_temp_min", JNull), JNull),
                              _safe_int(Get(tray_data, "nozzle_temp_max", JNull), JNull)))

\* Lines 185-186: `if tray: trays.append(tray)`, with the rest of the loop.
AppendTray(tray, rest) ==
    IF tray.exc \/ rest.exc THEN Raise
    ELSE IF tray.val # JNull THEN Ok(<<tray.val>> \o rest.val)
    ELSE rest

\* The tray loop of _parse_ams_data (lines 183-186).
RECURSIVE ParseTrays(_, _)
ParseTrays(items, unit_id) ==
    IF items = <<>> THEN Ok(<<>>)
    ELSE IF GetRaises(Head(items)) THEN Raise
    ELSE AppendTray(_parse_tray(Head(items), unit_id,
                                _safe_int(Get(Head(items), "id", JNull), JInt(0))),
                    ParseTrays(Tail(items), unit_id))

\* The shift without the mask: info >> 8
ExtruderOf_NoMask(info) == IF info = JNull THEN JNull ELSE JInt(info.i \div 256)

\* (info >> 8) & 0x0F
ExtruderOf(info) == IF info = JNull THEN JNull ELSE JInt((info.i \div 256) % 16)

\* The unit assembled from its fields and its parsed trays (lines 188-194).
BuildUnit(unit_id, humidity, temp, extruder, trays) ==
    IF trays.exc THEN Raise
    ELSE Ok(AmsUnit(unit_id, humidity, temp, extruder, trays.val))

\* One iteration of the unit loop of _parse_ams_data (lines 173-194).
ParseUnit(ams_unit) ==
    IF GetRaises(ams_unit) THEN Raise
    ELSE IF IterRaises(Get(ams_unit, "tray", JArr(<<>>))) THEN Raise
    ELSE BuildUnit(_safe_int(Get(ams_unit, "id", JNull), JInt(0)),
                   _safe_int(Get(ams_unit, "humidity", JNull), JNull),
                   _safe_int(Get(ams_unit, "temp", JNull), JNull),
                   ExtruderOf(_safe_int(Get(ams_unit, "info", JNull), JNull)),
                   ParseTrays(IterItems(Get(ams_unit, "tray", JArr(<<>>))),
                              _safe_int(Get(ams_unit, "id", JNull), JInt(0))))

\* Line 188: `units.append(...)`, with the rest of the loop.
AppendUnit(unit, rest) ==
    IF unit.exc \/ rest.exc THEN Raise ELSE Ok(<<unit.val>> \o rest.val)

\* The unit loop of _parse_ams_data (lines 172-194).
RECURSIVE ParseUnits(_)
ParseUnits(items) ==
    IF items = <<>> THEN Ok(<<>>)
    ELSE AppendUnit(ParseUnit(Head(items)), ParseUnits(Tail(items)))

\* A decode step's result: the state it leaves and whether it raised.
Done(st) == [exc |-> FALSE, st |-> st]
Fail(st) == [exc |-> TRUE, st |-> st]

\* The units of `known` whose id no unit of `reported` has.
RECURSIVE UnitsNotIn(_, _)
UnitsNotIn(known, reported) ==
    IF known = <<>> THEN <<>>
    ELSE IF \E i \in DOMAIN reported : reported[i].id = Head(known).id
        THEN UnitsNotIn(Tail(known), reported)
    ELSE <<Head(known)>> \o UnitsNotIn(Tail(known), reported)

\* The unit list merged by id: units the report does not name are kept.
AssignUnits_Merges(st, units) ==
    IF units.exc THEN Fail(st)
    ELSE Done([st EXCEPT !.ams_units = units.val \o UnitsNotIn(st.ams_units, units.val)])

\* Line 196: the unit list is assigned only once the whole list was built.
AssignUnits(st, units) ==
    IF units.exc THEN Fail(st) ELSE Done([st EXCEPT !.ams_units = units.val])

\* PrinterConnection._parse_ams_data
_parse_ams_data(st, ams_data) ==
    IF InRaises(ams_data) THEN Fail(st)
    ELSE IF ~In("ams", ams_data) THEN Done(st)
    ELSE IF IndexRaises(ams_data) THEN Fail(st)
    ELSE IF IterRaises(Index(ams_data, "ams")) THEN Fail(st)
    ELSE AssignUnits(st, ParseUnits(IterItems(Index(ams_data, "ams"))))

\* The field copy written as `st.field = d.get(key)`.
CopyField_Overwrites(st, field, d, key) ==
    IF GetRaises(d) THEN Fail(st)
    ELSE Done([st EXCEPT ![field] = Get(d, key, JNull)])

\* `if key in d: st.field = d[key]` (lines 127-136).
CopyField(st, field, d, key) ==
    IF InRaises(d) THEN Fail(st)
    ELSE IF ~In(key, d) THEN Done(st)
    ELSE IF IndexRaises(d) THEN Fail(st)
    ELSE Done([st EXCEPT ![field] = Index(d, key)])

\* `if key in data_3d: ... elif key in print_data: ...` (lines 140-148).
CopyLayer(st, field, data_3d, print_data, key) ==
    IF InRaises(data_3d) THEN Fail(st)
    ELSE IF In(key, data_3d) THEN
        (IF IndexRaises(data_3d) THEN Fail(st)
         ELSE Done([st EXCEPT ![field] = Index(data_3d, key)]))
    ELSE CopyField(st, field, print_data, key)

\* Lines 145-148, after lines 140-143 gave r.
TotalLayerStep(r, data_3d, print_data) ==
    IF r.exc THEN r
    ELSE CopyLayer(r.st, "total_layer_num", data_3d, print_data, "total_layer_num")

\* Lines 139-148: the layer fields.
LayerStep(st, print_data) ==
    IF GetRaises(print_data) THEN Fail(st)
    ELSE TotalLayerStep(CopyLayer(st, "layer_num", Get(print_data, "3D", EmptyObj),
                                  print_data, "layer_num"),
                        Get(print_data, "3D", EmptyObj), print_data)

\* Lines 151-152: the AMS section.
AmsStep(st, print_data) ==
    IF ~In("ams", print_data) THEN Done(st)
    ELSE _parse_ams_data(st, Index(print_data, "ams"))

\* Line 156: the parsed external tray is assigned.
AssignVtTray(st, tray) ==
    IF tray.exc THEN Fail(st) ELSE Done([st EXCEPT !.vt_tray = tray.val])

\* Lines 155-156: the external tray.
VtTrayStep(st, print_data) ==
    IF ~In("vt_tray", print_data) THEN Done(st)
    ELSE AssignVtTray(st, _parse_tray(Index(print_data, "vt_tray"), JInt(255), JInt(0)))

\* The statements of lines 127-156 in order; statement i works on the state
\* the earlier ones left.
Statement(i, st, print_data) ==
    CASE i = 1 -> CopyField(st, "gcode_state", print_data, "gcode_state")
      [] i = 2 -> CopyField(st, "print_progress", print_data, "mc_percent")
      [] i = 3 -> CopyField(st, "subtask_name", print_data, "subtask_name")
      [] i = 4 -> LayerStep(st, print_data)
      [] i = 5 -> AmsStep(st, print_data)
      [] i = 6 -> VtTrayStep(st, print_data)

\* Statements i..6 on the print section: a raise ends the run and keeps
\* what was assigned before it.
RECURSIVE DecodePrint(_, _, _)
DecodePrint(i, r, print_data) ==
    IF r.exc \/ i > 6 THEN r
    ELSE DecodePrint(i + 1, Statement(i, r.st, print_data), print_data)

\* The notification placed in a finally clause: it is made after a raise too.
WithNotify_Always(r) == [exc |-> r.exc, st |-> r.st, notify |-> TRUE]

\* Lines 158-164: the notification is reached when nothing raised.
WithNotify(r) == [exc |-> r.exc, st |-> r.st, notify |-> ~r.exc]

\* _handle_message reading the section as `payload.get("print", payload)`.
_handle_message_TopLevel(st, payload) ==
    IF GetRaises(payload) THEN [exc |-> TRUE, st |-> st, notify |-> FALSE]
    ELSE WithNotify(DecodePrint(1, Done(st), Get(payload, "print", payload)))

\* PrinterConnection._handle_message: the state it leaves, whether it raised,
\* and whether it scheduled the notification.
_handle_message(st, payload) ==
    IF InRaises(payload) THEN [exc |-> TRUE, st |-> st, notify |-> FALSE]
    ELSE IF ~In("print", payload) THEN [exc |-> FALSE, st |-> st, notify |-> FALSE]
    ELSE IF IndexRaises(payload) THEN [exc |-> TRUE, st |-> st, notify |-> FALSE]
    ELSE WithNotify(DecodePrint(1, Done(st), Index(payload, "print")))

----------------------------------------------------------------------------
(* Inputs of the model *)

\* Device identifiers.
Serial == {"P1", "P2"}

\* CONNACK reason codes: 0 accepts the session, 5 is "not authorized".
ReasonCodes == {0, 5}

\* One AMS report for unit 0 with the given tray list.
AmsReport(trays) ==
    JObj([print |-> JObj([ams |-> JObj([ams |-> JArr(<<
        JObj([id |-> JStr("0"), humidity |-> JInt(30), temp |-> JStr("25.0"),
              tray |-> JArr(trays)])>>)])])])

TrayReport(id, type) == JObj([id |-> JStr(id), tray_type |-> type])

\* A received message: bytes that are not UTF-8, text that is not JSON, or
\* JSON text with the value json.loads returns for it.
BadBytes == [enc |-> "bad_utf8", payload |-> JNull]
BadJson == [enc |-> "bad_json", payload |-> JNull]
Json(v) == [enc |-> "json", payload |-> v]

GcodeReport == Json(JObj([print |-> JObj([gcode_state |-> JStr("RUNNING")])]))
EmptySlotReport == Json(AmsReport(<<TrayReport("0", JNull)>>))
LoadedSlotReport == Json(AmsReport(<<TrayReport("0", JStr("PLA"))>>))
\* One unit with the given id and packed info value, and no tray.
InfoReport(id, info) ==
    Json(JObj([print |-> JObj([ams |-> JObj([ams |-> JArr(<<
        JObj([id |-> JStr(id), info |-> info])>>)])])]))

\* A unit that carries no info key.
NoInfoReport(id) ==
    Json(JObj([print |-> JObj([ams |-> JObj([ams |-> JArr(<<JObj([id |-> JStr(id)])>>)])])]))

\* The info values of the model's reports: integers around the bits 8-11,
\* negative ones, a numeral, a float, and values int() cannot take.
InfoValues ==
    {JInt(0), JInt(255), JInt(256), JInt(257), JInt(3840), JInt(4096), JInt(4352),
     JInt(65535), JInt(-1), JInt(-256), JInt(-4096), JStr("512"), JFloat(256700),
     JStr("abc"), JNull, JArr(<<>>)}

\* The reports of one unit, with each info value and without an info key.
InfoMessages ==
    {InfoReport(id, info) : id \in {"0", "1"}, info \in InfoValues}
        \cup {NoInfoReport(id) : id \in {"0", "1"}}

\* One unit of a report, with one loaded tray.
UnitReport(id) ==
    JObj([id |-> JStr(id), humidity_raw |-> JInt(40), temp |-> JStr("28.0"),
          tray |-> JArr(<<JObj([id |-> JStr("0"), tray_type |-> JStr("PLA-CF"),
                                tray_color |-> JStr("808080FF")])>>)])

\* A report whose AMS section lists the units with the given ids.
UnitsReport(ids) ==
    Json(JObj([print |-> JObj([ams |-> JObj([ams |-> JArr([i \in DOMAIN ids |-> UnitReport(ids[i])])])])]))

\* The report of a running job with units 0 and 1.
TwoUnitReport ==
    Json(JObj([print |-> JObj([gcode_state |-> JStr("RUNNING"),
        ams |-> JObj([ams |-> JArr(<<UnitReport("0"), UnitReport("1")>>)])])]))

\* An AMS section without a unit list.
NoUnitListReport == Json(JObj([print |-> JObj([ams |-> JObj([tray_now |-> JStr("0")])])]))

\* The unit lists the model's reports carry: two units in either order, the
\* single-slot unit 128 alone, a list that repeats a unit, and an empty list.
UnitLists == {<<"0", "1">>, <<"1", "0">>, <<"128">>, <<"1", "1">>, <<>>}

\* The reports with a unit list, with an AMS section that has none, and
\* with no AMS section.
UnitMessages ==
    {UnitsReport(ids) : ids \in UnitLists} \cup {TwoUnitReport, NoUnitListReport, GcodeReport}

PetgSlotReport == Json(AmsReport(<<TrayReport("0", JStr("PETG"))>>))
OtherNamespace == Json(JObj([info |-> EmptyObj]))
BadShapeReport == Json(JObj([print |-> JObj([gcode_state |-> JStr("RUNNING"), ams |-> JInt(5)])]))

\* The messages a printer sends in the model: slot (0, 0) reported empty and
\* loaded, a status delta, a message of another namespace, undecodable
\* payloads, and a report whose AMS section has the wrong shape.
Messages ==
    {EmptySlotReport, LoadedSlotReport, GcodeReport, OtherNamespace, BadBytes, BadJson, BadShapeReport}

\* A full report: every top-level field, one unit with both humidity fields
\* and one fully described tray, and the external tray.
FullTray ==
    JObj([id |-> JStr("0"), tray_type |-> JStr("PLA"), tray_color |-> JStr("FF0000FF"),
          tray_info_idx |-> JStr("GFL05"), k |-> JFloat(25),
          nozzle_temp_min |-> JInt(190), nozzle_temp_max |-> JInt(230)])

FullReport ==
    Json(JObj([print |-> JObj([
        gcode_state |-> JStr("RUNNING"), mc_percent |-> JInt(45),
        subtask_name |-> JStr("test_print.gcode"),
        layer_num |-> JInt(50), total_layer_num |-> JInt(200),
        ams |-> JObj([ams |-> JArr(<<
            JObj([id |-> JStr("0"), humidity |-> JInt(35), humidity_raw |-> JInt(42),
                  tray |-> JArr(<<FullTray>>)])>>)]),
        vt_tray |-> JObj([tray_type |-> JStr("PETG")])])]))

\* Deltas: each carries some fields and omits the others.
StatusDelta == Json(JObj([print |-> JObj([gcode_state |-> JStr("FINISH")])]))

ProgressDelta ==
    Json(JObj([print |-> JObj(
        [mc_percent |-> JInt(46), subtask_name |-> JStr("next.gcode")] @@
        ("3D" :> JObj([layer_num |-> JInt(51), total_layer_num |-> JInt(201)])))]))

\* Slot (0, 0) with its color alone; the unit with the raw humidity alone.
TrayDelta ==
    Json(JObj([print |-> JObj([ams |-> JObj([ams |-> JArr(<<
        JObj([id |-> JStr("0"), humidity_raw |-> JInt(40),
              tray |-> JArr(<<JObj([id |-> JStr("0"), tray_color |-> JStr("00FF00FF")])>>)])>>)])])]))

VtDelta == Json(JObj([print |-> JObj([vt_tray |-> JObj([tray_type |-> JStr("ABS")])])]))

\* A message without the print namespace that carries state-like keys in
\* another namespace and at the top level.
SystemReport ==
    Json(JObj([system |-> JObj([gcode_state |-> JStr("FAILED")]),
               gcode_state |-> JStr("FAILED"), mc_percent |-> JInt(99)]))

\* The per-nozzle descriptors of a dual-nozzle printer: the right nozzle on
\* unit 0 slot 1 (0x0001), the left one on unit 1 slot 2 (0x0102), extruder
\* state 0x10.
DualNozzleReport ==
    Json(JObj([print |-> JObj([device |-> JObj([extruder |-> JObj([
        info |-> JArr(<<JObj([id |-> JInt(0), snow |-> JInt(1)]),
                        JObj([id |-> JInt(1), snow |-> JInt(258)])>>),
        state |-> JInt(16)])])])]))

\* JSON text whose value is a list, not an object.
ListPayload == Json(JArr(<<JStr("print")>>))

\* Slot (0, 0) with a calibration index and no inline flow coefficient, with
\* both, and with an index no profile has.
IndexedTrayReport ==
    Json(AmsReport(<<JObj([id |-> JStr("0"), tray_type |-> JStr("PLA"), cali_idx |-> JInt(42)])>>))
InlineTrayReport ==
    Json(AmsReport(<<JObj([id |-> JStr("0"), tray_type |-> JStr("PLA"), cali_idx |-> JInt(42),
                           k |-> JFloat(20)])>>))
UnknownIndexReport ==
    Json(AmsReport(<<JObj([id |-> JStr("0"), tray_type |-> JStr("PLA"), cali_idx |-> JInt(7)])>>))

CalibrationMessages == {IndexedTrayReport, InlineTrayReport, UnknownIndexReport, LoadedSlotReport}

\* The profile lists of calibration-query responses: flow coefficients in
\* thousandths by calibration index.
Profile(cali_idx, k_value) == [cali_idx |-> cali_idx, k_value |-> JFloat(k_value)]
CalibrationResponses ==
    {<<Profile(42, 30)>>, <<Profile(43, 25), Profile(44, 35)>>, <<>>}

\* The messages of the decoder's specification.
DecodeMessages ==
    {FullReport, StatusDelta, ProgressDelta, TrayDelta, VtDelta, SystemReport,
     OtherNamespace, ListPayload, DualNozzleReport, BadShapeReport}

\* json.loads(msg.payload.decode()): the error it raises ("" for none) and
\* the value it returns.
JsonLoads(msg) ==
    [error |-> CASE msg.enc = "bad_utf8" -> "UnicodeDecodeError"
                 [] msg.enc = "bad_json" -> "JSONDecodeError"
                 [] OTHER -> "",
     val |-> msg.payload]

----------------------------------------------------------------------------
(* State *)

\* The longest queue of scheduled notifications the model follows, and the
\* longest one it follows where the order of the notifications is examined.
MaxQueue == 1
MaxBurst == 2

\* (unit id, slot id) keys and spool references used for staging.
SlotKeys == {<<0, 0>>, <<0, 1>>}
Spools == {"S1", "S2"}

VARIABLES
    _connections,           \* PrinterManager._connections: the identifiers it holds
    _client,                \* per identifier: the connection object has a client
    _connected,             \* per identifier: PrinterConnection._connected
    _state,                 \* per identifier: PrinterConnection._state
    _pending_assignments,   \* per identifier: staged assignments by (unit, slot)
    _calibrations,          \* per identifier: flow coefficient by calibration index
    loop_threads,           \* per identifier: running network loops (loop_start)
    link,                   \* per identifier: the session as the transport sees it
    loop_queue,             \* callbacks scheduled with call_soon_threadsafe, in order
    last,                   \* the last call or callback, what it returned and published
    _on_state_update,       \* PrinterManager._on_state_update: the registered subscriber
    called,                 \* the last call of the subscriber: which one, for which printer
    decoding                \* per identifier: where its network thread is in _handle_message

vars == <<_connections, _client, _connected, _state, _pending_assignments, _calibrations, loop_threads, link, loop_queue, last, _on_state_update, called, decoding>>

\* Return values: None, a bool, a raised exception.
RetNone == JNull
RetBool(b) == [k |-> "bool", b |-> b]
RetRaise == [k |-> "raise"]

Call(op, serial, arg, ret, pub) ==
    [op |-> op, serial |-> serial, arg |-> arg, ret |-> ret, pub |-> pub]

\* No subscriber is registered (None), and the subscribers that are.
NoCallback == "None"
Callbacks == {"state_cb", "other_cb"}

\* The network thread of a connection is not inside _handle_message; `before`
\* is the state the connection had when the report it decodes arrived.
Idle == [i |-> 0, print_data |-> JNull, before |-> PrinterState]

Init ==
    /\ _connections = {}
    /\ _client = [p \in Serial |-> FALSE]
    /\ _connected = [p \in Serial |-> FALSE]
    /\ _state = [p \in Serial |-> PrinterState]
    /\ _pending_assignments = [p \in Serial |-> <<>>]
    /\ _calibrations = [p \in Serial |-> <<>>]
    /\ loop_threads = [p \in Serial |-> 0]
    /\ link = [p \in Serial |-> "none"]
    /\ loop_queue = <<>>
    /\ last = Call("init", "", <<>>, RetNone, <<>>)
    /\ _on_state_update = NoCallback
    /\ called = [callback |-> NoCallback, serial |-> "", seq |-> 0, state |-> JNull]
    /\ decoding = [p \in Serial |-> Idle]

\* The positions of the callbacks scheduled for p.
Scheduled(queue, p) == {i \in DOMAIN queue : queue[i].serial = p}

\* call_soon_threadsafe makes a new handle for every call: a scheduled
\* callback is told from the one scheduled before it for the same connection
\* by a bit that alternates.
Handle(queue, p) ==
    [serial |-> p,
     seq |-> IF Scheduled(queue, p) = {} THEN 0
             ELSE 1 - queue[CHOOSE i \in Scheduled(queue, p) :
                                \A j \in Scheduled(queue, p) : j <= i].seq]

\* call_soon_threadsafe(callback): the callback joins the end of the queue.
call_soon_threadsafe(queue, p) == Append(queue, Handle(queue, p))

\* PrinterConnection.connected
connected(p) == _connected[p]

\* PrinterConnection._send_pushall: what it publishes on device/<serial>/request.
_send_pushall(p, client, live) ==
    IF client /\ live THEN <<[topic |-> p, command |-> "pushall"]>> ELSE <<>>

----------------------------------------------------------------------------
(* PrinterManager *)

\* PrinterManager.connect without its `serial in self._connections` check.
ManagerConnect_NoGuard(p, ok) ==
    IF ~ok THEN
        /\ last' = Call("connect", p, <<>>, RetRaise, <<>>)
        /\ UNCHANGED <<_connections, _client, _connected, _state, _pending_assignments, _calibrations, loop_threads, link, loop_queue, _on_state_update, called, decoding>>
    ELSE
        /\ _connections' = _connections \cup {p}
        /\ _client' = [_client EXCEPT ![p] = TRUE]
        /\ _connected' = [_connected EXCEPT ![p] = FALSE]
        /\ _state' = [_state EXCEPT ![p] = PrinterState]
        /\ _pending_assignments' = [_pending_assignments EXCEPT ![p] = <<>>]
        /\ _calibrations' = [_calibrations EXCEPT ![p] = <<>>]
        /\ loop_threads' = [loop_threads EXCEPT ![p] = @ + 1]
        /\ link' = [link EXCEPT ![p] = "wait_ack"]
        /\ last' = Call("connect", p, <<>>, RetNone, <<>>)
        /\ UNCHANGED <<loop_queue, _on_state_update, called, decoding>>

\* PrinterManager.connect marking the connection live as soon as the
\* transport connect returned, and again for an identifier it already holds.
ManagerConnect_MarksLive(p, ok) ==
    IF ~ok THEN
        /\ last' = Call("connect", p, <<>>, RetRaise, <<>>)
        /\ UNCHANGED <<_connections, _client, _connected, _state, _pending_assignments, _calibrations, loop_threads, link, loop_queue, _on_state_update, called, decoding>>
    ELSE IF p \in _connections THEN
        /\ _connected' = [_connected EXCEPT ![p] = TRUE]
        /\ last' = Call("connect", p, <<>>, RetNone, <<>>)
        /\ UNCHANGED <<_connections, _client, _state, _pending_assignments, _calibrations, loop_threads, link, loop_queue, _on_state_update, called, decoding>>
    ELSE
        /\ _connections' = _connections \cup {p}
        /\ _client' = [_client EXCEPT ![p] = TRUE]
        /\ _connected' = [_connected EXCEPT ![p] = TRUE]
        /\ _state' = [_state EXCEPT ![p] = PrinterState]
        /\ _pending_assignments' = [_pending_assignments EXCEPT ![p] = <<>>]
        /\ _calibrations' = [_calibrations EXCEPT ![p] = <<>>]
        /\ loop_threads' = [loop_threads EXCEPT ![p] = @ + 1]
        /\ link' = [link EXCEPT ![p] = "wait_ack"]
        /\ last' = Call("connect", p, <<>>, RetNone, <<>>)
        /\ UNCHANGED <<loop_queue, _on_state_update, called, decoding>>

\* PrinterManager.connect; `ok` is whether the transport connect succeeds
\* (client.connect raises otherwise).  A new PrinterConnection is registered
\* only after its client connected and its network loop was started.
ManagerConnect(p, ok) ==
    IF p \in _connections THEN
        /\ last' = Call("connect", p, <<>>, RetNone, <<>>)
        /\ UNCHANGED <<_connections, _client, _connected, _state, _pending_assignments, _calibrations, loop_threads, link, loop_queue, _on_state_update, called, decoding>>
    ELSE IF ~ok THEN
        /\ last' = Call("connect", p, <<>>, RetRaise, <<>>)
        /\ UNCHANGED <<_connections, _client, _connected, _state, _pending_assignments, _calibrations, loop_threads, link, loop_queue, _on_state_update, called, decoding>>
    ELSE
        /\ _connections' = _connections \cup {p}
        /\ _client' = [_client EXCEPT ![p] = TRUE]
        /\ _connected' = [_connected EXCEPT ![p] = FALSE]
        /\ _state' = [_state EXCEPT ![p] = PrinterState]
        /\ _pending_assignments' = [_pending_assignments EXCEPT ![p] = <<>>]
        /\ _calibrations' = [_calibrations EXCEPT ![p] = <<>>]
        /\ loop_threads' = [loop_threads EXCEPT ![p] = @ + 1]
        /\ link' = [link EXCEPT ![p] = "wait_ack"]
        /\ last' = Call("connect", p, <<>>, RetNone, <<>>)
        /\ UNCHANGED <<loop_queue, _on_state_update, called, decoding>>

\* PrinterConnection.disconnect leaving the live flag to the disconnect
\* callback, which a stopped network loop never delivers.
ConnDisconnect_KeepsFlag(ps) ==
    /\ loop_threads' = [p \in Serial |->
            IF p \in ps /\ _client[p] THEN loop_threads[p] - 1 ELSE loop_threads[p]]
    /\ link' = [p \in Serial |-> IF p \in ps /\ _client[p] THEN "none" ELSE link[p]]
    /\ UNCHANGED _connected

\* disconnect clearing the flag and leaving the session and its network loop.
ConnDisconnect_LeavesLoop(ps) ==
    /\ _connected' = [p \in Serial |->
            IF p \in ps /\ _client[p] THEN FALSE ELSE _connected[p]]
    /\ UNCHANGED <<loop_threads, link>>

\* PrinterConnection.disconnect on the connections in `ps`.
ConnDisconnect(ps) ==
    /\ loop_threads' = [p \in Serial |->
            IF p \in ps /\ _client[p] THEN loop_threads[p] - 1 ELSE loop_threads[p]]
    /\ link' = [p \in Serial |-> IF p \in ps /\ _client[p] THEN "none" ELSE link[p]]
    /\ _connected' = [p \in Serial |->
            IF p \in ps /\ _client[p] THEN FALSE ELSE _connected[p]]

\* The calibration cache of a connection is cleared when it is disconnected.
\* The source file has no cache; this follows the specification (4.2).
ClearCalibrations(ps) ==
    _calibrations' = [p \in Serial |->
        IF p \in ps /\ _client[p] THEN <<>> ELSE _calibrations[p]]

\* PrinterManager.disconnect looking the connection up with get, not pop.
ManagerDisconnect_KeepsEntry(p) ==
    IF p \notin _connections THEN
        /\ last' = Call("disconnect", p, <<>>, RetNone, <<>>)
        /\ UNCHANGED <<_connections, _client, _connected, _state, _pending_assignments, _calibrations, loop_threads, link, loop_queue, _on_state_update, called, decoding>>
    ELSE
        /\ ConnDisconnect({p})
        /\ ClearCalibrations({p})
        /\ last' = Call("disconnect", p, <<>>, RetNone, <<>>)
        /\ UNCHANGED <<_connections, _client, _state, _pending_assignments, loop_queue, _on_state_update, called, decoding>>

\* PrinterManager.disconnect
ManagerDisconnect(p) ==
    IF p \notin _connections THEN
        /\ last' = Call("disconnect", p, <<>>, RetNone, <<>>)
        /\ UNCHANGED <<_connections, _client, _connected, _state, _pending_assignments, _calibrations, loop_threads, link, loop_queue, _on_state_update, called, decoding>>
    ELSE
        /\ _connections' = _connections \ {p}
        /\ ConnDisconnect({p})
        /\ ClearCalibrations({p})
        /\ last' = Call("disconnect", p, <<>>, RetNone, <<>>)
        /\ UNCHANGED <<_client, _state, _pending_assignments, loop_queue, _on_state_update, called, decoding>>

\* PrinterManager.disconnect_all
ManagerDisconnectAll ==
    /\ _connections' = {}
    /\ ConnDisconnect(_connections)
    /\ ClearCalibrations(_connections)
    /\ last' = Call("disconnect_all", "", <<>>, RetNone, <<>>)
    /\ UNCHANGED <<_client, _state, _pending_assignments, loop_queue, _on_state_update, called, decoding>>

\* The scheduled lambda reading self._state for a printer fixed when the
\* lambda is written, not the one it was scheduled for.
\* The lambda reading the state of the first connection, whichever scheduled it.
CurrentState_FirstPrinter(states, handle) == states["P1"]

\* Line 163: the scheduled lambda reads self._state when it runs, and
\* PrinterConnection.state is the object the decode assigns to.
CurrentState(states, handle) == states[handle.serial]

\* PrinterManager._handle_state_update(serial, state): the registered
\* subscriber, if there is one, is called with the update `handle` stands
\* for and the state it was given.
_handle_state_update(slot, previous, handle, state) ==
    IF slot = NoCallback THEN previous
    ELSE [callback |-> slot, serial |-> handle.serial, seq |-> handle.seq, state |-> state]

\* An event loop that runs the callback scheduled last.
RunCallback_NewestFirst ==
    /\ loop_queue # <<>>
    /\ loop_queue' = SubSeq(loop_queue, 1, Len(loop_queue) - 1)
    /\ last' = Call("_handle_state_update", loop_queue[Len(loop_queue)].serial, loop_queue[Len(loop_queue)].seq, RetNone, <<>>)
    /\ called' = _handle_state_update(_on_state_update, called, loop_queue[Len(loop_queue)],
                                      CurrentState(_state, loop_queue[Len(loop_queue)]))
    /\ UNCHANGED <<_connections, _client, _connected, _state, _pending_assignments, _calibrations, loop_threads, link, _on_state_update, decoding>>

\* The event loop runs the oldest scheduled callback: the lambda of
\* _handle_message, which calls PrinterManager._handle_state_update.
RunCallback ==
    /\ loop_queue # <<>>
    /\ loop_queue' = Tail(loop_queue)
    /\ last' = Call("_handle_state_update", Head(loop_queue).serial, Head(loop_queue).seq, RetNone, <<>>)
    /\ called' = _handle_state_update(_on_state_update, called, Head(loop_queue),
                                      CurrentState(_state, Head(loop_queue)))
    /\ UNCHANGED <<_connections, _client, _connected, _state, _pending_assignments, _calibrations, loop_threads, link, _on_state_update, decoding>>

----------------------------------------------------------------------------
(* PrinterConnection: the transport's callbacks *)

\* client.subscribe(f"device/{self.serial}/report") as the transport sees it.
subscribe(p) == <<[topic |-> p, channel |-> "report", command |-> "subscribe"]>>

\* _on_connect asking for the full state before it sets the live flag.
OnConnect_PushBeforeFlag(p, rc) ==
    /\ loop_threads[p] > 0
    /\ decoding[p] = Idle
    /\ link[p] \in {"wait_ack", "down"}
    /\ IF rc = 0 THEN
            /\ _connected' = [_connected EXCEPT ![p] = TRUE]
            /\ link' = [link EXCEPT ![p] = "up"]
            /\ last' = Call("_on_connect", p, rc, RetNone,
                            _send_pushall(p, _client[p], connected(p)) \o subscribe(p))
       ELSE
            /\ link' = [link EXCEPT ![p] = "down"]
            /\ last' = Call("_on_connect", p, rc, RetNone, <<>>)
            /\ UNCHANGED _connected
    /\ UNCHANGED <<_connections, _client, _state, _pending_assignments, _calibrations, loop_threads, loop_queue, _on_state_update, called, decoding>>

\* _on_connect without the test of the reason code.
OnConnect_IgnoresReason(p, rc) ==
    /\ loop_threads[p] > 0
    /\ decoding[p] = Idle
    /\ link[p] \in {"wait_ack", "down"}
    /\ _connected' = [_connected EXCEPT ![p] = TRUE]
    /\ link' = [link EXCEPT ![p] = "up"]
    /\ last' = Call("_on_connect", p, rc, RetNone, subscribe(p) \o _send_pushall(p, _client[p], TRUE))
    /\ UNCHANGED <<_connections, _client, _state, _pending_assignments, _calibrations, loop_threads, loop_queue, _on_state_update, called, decoding>>

\* _on_connect requesting the full state whatever the reason code is.
OnConnect_PushesOnRefusal(p, rc) ==
    /\ loop_threads[p] > 0
    /\ decoding[p] = Idle
    /\ link[p] \in {"wait_ack", "down"}
    /\ IF rc = 0 THEN
            /\ _connected' = [_connected EXCEPT ![p] = TRUE]
            /\ link' = [link EXCEPT ![p] = "up"]
            /\ last' = Call("_on_connect", p, rc, RetNone,
                            subscribe(p) \o _send_pushall(p, _client[p], TRUE))
       ELSE
            /\ link' = [link EXCEPT ![p] = "down"]
            /\ last' = Call("_on_connect", p, rc, RetNone, _send_pushall(p, _client[p], TRUE))
            /\ UNCHANGED _connected
    /\ UNCHANGED <<_connections, _client, _state, _pending_assignments, _calibrations, loop_threads, loop_queue, _on_state_update, called, decoding>>

\* PrinterConnection._on_connect with reason code rc: the transport delivers
\* an acknowledgement to a running session that is not up, the first one of
\* the session or, after a drop, the one of the transport's own reconnect.
\* With reason 0 the flag is set, the report topic is subscribed to and
\* _send_pushall is called.
OnConnect(p, rc) ==
    /\ loop_threads[p] > 0
    /\ decoding[p] = Idle
    /\ link[p] \in {"wait_ack", "down"}
    /\ IF rc = 0 THEN
            /\ _connected' = [_connected EXCEPT ![p] = TRUE]
            /\ link' = [link EXCEPT ![p] = "up"]
            /\ last' = Call("_on_connect", p, rc, RetNone,
                            subscribe(p) \o _send_pushall(p, _client[p], TRUE))
       ELSE
            /\ link' = [link EXCEPT ![p] = "down"]
            /\ last' = Call("_on_connect", p, rc, RetNone, <<>>)
            /\ UNCHANGED _connected
    /\ UNCHANGED <<_connections, _client, _state, _pending_assignments, _calibrations, loop_threads, loop_queue, _on_state_update, called, decoding>>

\* _on_disconnect taking the connection out of the registry.
OnDisconnect_DropsEntry(p) ==
    /\ loop_threads[p] > 0
    /\ decoding[p] = Idle
    /\ link[p] \in {"wait_ack", "up"}
    /\ _connections' = _connections \ {p}
    /\ _connected' = [_connected EXCEPT ![p] = FALSE]
    /\ link' = [link EXCEPT ![p] = "down"]
    /\ last' = Call("_on_disconnect", p, <<>>, RetNone, <<>>)
    /\ UNCHANGED <<_client, _state, _pending_assignments, _calibrations, loop_threads, loop_queue, _on_state_update, called, decoding>>

\* PrinterConnection._on_disconnect: the session dropped.
OnDisconnect(p) ==
    /\ loop_threads[p] > 0
    /\ decoding[p] = Idle
    /\ link[p] \in {"wait_ack", "up"}
    /\ _connected' = [_connected EXCEPT ![p] = FALSE]
    /\ link' = [link EXCEPT ![p] = "down"]
    /\ last' = Call("_on_disconnect", p, <<>>, RetNone, <<>>)
    /\ UNCHANGED <<_connections, _client, _state, _pending_assignments, _calibrations, loop_threads, loop_queue, _on_state_update, called, decoding>>

\* The try block of _on_message (lines 105-106): json.loads, then
\* _handle_message with its notification (lines 159-164).  The errors of the
\* decoder (TypeError, AttributeError, KeyError, ValidationError) are
\* subclasses of Exception, as UnicodeDecodeError is.
TryResult(st, loaded_error, r) ==
    IF loaded_error # "" THEN [error |-> loaded_error, st |-> st, notify |-> FALSE]
    ELSE [error |-> IF r.exc THEN "Exception" ELSE "", st |-> r.st, notify |-> r.notify]

TryHandle(st, msg) ==
    TryResult(st, JsonLoads(msg).error, _handle_message(st, JsonLoads(msg).val))

\* _on_message with its first except clause only.
OnMessageCatches_JsonOnly(error) == error = "JSONDecodeError"

\* The except clauses of _on_message (lines 107-110): JSONDecodeError, then
\* Exception, which is every error the try block raises.
OnMessageCatches(error) ==
    error \in {"JSONDecodeError", "UnicodeDecodeError", "Exception"}

\* _on_message with a decode that consumes the staged assignments of every
\* slot it reports, whether or not the slot was loaded.
OnMessage_DropsPending(p, msg) ==
    /\ loop_threads[p] > 0
    /\ link[p] = "up"
    /\ LET r == TryHandle(_state[p], msg)
       IN /\ r.notify => Len(loop_queue) < MaxQueue
          /\ _state' = [_state EXCEPT ![p] = r.st]
          /\ loop_queue' = IF r.notify THEN call_soon_threadsafe(loop_queue, p) ELSE loop_queue
          /\ _pending_assignments' =
                [_pending_assignments EXCEPT ![p] =
                    IF r.st.ams_units # <<>> THEN <<>> ELSE @]
          /\ last' = Call("_on_message", p, msg, RetNone, <<>>)
    /\ UNCHANGED <<_connections, _client, _connected, _calibrations, loop_threads, link, _on_state_update, called, decoding>>

\* _handle_message calling self._on_state_update(self.serial, self._state)
\* itself, on the network thread, in place of scheduling it.
Receive_Inline(p, msg, bound) ==
    /\ loop_threads[p] > 0
    /\ decoding[p] = Idle
    /\ link[p] = "up"
    /\ LET r == TryHandle(_state[p], msg)
       IN /\ _state' = [_state EXCEPT ![p] = r.st]
          /\ called' = IF r.notify THEN _handle_state_update(_on_state_update, called, Handle(loop_queue, p), r.st)
                       ELSE called
          /\ last' = Call("_on_message", p, msg, RetNone, <<>>)
    /\ UNCHANGED <<_connections, _client, _connected, _pending_assignments, _calibrations, loop_threads, link, loop_queue, _on_state_update, decoding>>

\* PrinterConnection._on_message.  An error no clause catches would leave the
\* callback and end the network loop that called it.
Receive(p, msg, bound) ==
    /\ loop_threads[p] > 0
    /\ decoding[p] = Idle
    /\ link[p] = "up"
    /\ LET r == TryHandle(_state[p], msg)
           escapes == r.error # "" /\ ~OnMessageCatches(r.error)
       IN /\ r.notify => Len(loop_queue) < bound
          /\ _state' = [_state EXCEPT ![p] = r.st]
          /\ loop_queue' = IF r.notify THEN call_soon_threadsafe(loop_queue, p) ELSE loop_queue
          /\ loop_threads' = [loop_threads EXCEPT ![p] = IF escapes THEN @ - 1 ELSE @]
          /\ last' = Call("_on_message", p, msg, IF escapes THEN RetRaise ELSE RetNone, <<>>)
    /\ UNCHANGED <<_connections, _client, _connected, _pending_assignments, _calibrations, link, _on_state_update, called, decoding>>

\* _on_message while at most MaxQueue notifications wait for the event loop.
OnMessage(p, msg) == Receive(p, msg, MaxQueue)

\* The report of a print job that follows the connection's state: RUNNING
\* when the job has not started, FINISH once it runs, none after that.
JobReport(p) ==
    /\ _state[p].gcode_state # JStr("FINISH")
    /\ Receive(p, IF _state[p].gcode_state = JStr("RUNNING") THEN StatusDelta ELSE GcodeReport, MaxBurst)

\* _on_message while at most MaxBurst notifications wait: reports decoded
\* faster than the event loop delivers them.
OnMessageBurst(p, msg) == Receive(p, msg, MaxBurst)

----------------------------------------------------------------------------
(* PrinterConnection: the assignment store *)

PendingAssignment(spool_id) == [spool_id |-> spool_id]

\* stage_assignment keeping the entry a slot already has (setdefault).
stage_assignment_KeepsFirst(pending, key, spool_id) ==
    [k \in DOMAIN pending \cup {key} |->
        IF k \in DOMAIN pending THEN pending[k] ELSE PendingAssignment(spool_id)]

\* stage_assignment(ams_id, tray_id, spool_id): staging overwrites.
stage_assignment(pending, key, spool_id) ==
    [k \in DOMAIN pending \cup {key} |->
        IF k = key THEN PendingAssignment(spool_id) ELSE pending[k]]

\* cancel_assignment reporting success whether or not an entry was there.
cancel_assignment_AlwaysTrue(pending, key) ==
    [map |-> [k \in DOMAIN pending \ {key} |-> pending[k]], ret |-> TRUE]

\* cancel_assignment reporting the entry without removing it.
cancel_assignment_KeepsEntry(pending, key) ==
    [map |-> pending, ret |-> key \in DOMAIN pending]

\* cancel_assignment(ams_id, tray_id): the map it leaves and what it returns.
cancel_assignment(pending, key) ==
    IF key \in DOMAIN pending
      THEN [map |-> [k \in DOMAIN pending \ {key} |-> pending[k]], ret |-> TRUE]
      ELSE [map |-> pending, ret |-> FALSE]

\* get_pending_assignment(ams_id, tray_id)
get_pending_assignment(pending, key) ==
    IF key \in DOMAIN pending THEN pending[key] ELSE JNull

StageAssignment(p, key, spool_id) ==
    /\ p \in _connections
    /\ _pending_assignments' =
          [_pending_assignments EXCEPT ![p] = stage_assignment(@, key, spool_id)]
    /\ last' = Call("stage_assignment", p, <<key, spool_id>>, RetBool(TRUE), <<>>)
    /\ UNCHANGED <<_connections, _client, _connected, _state, _calibrations, loop_threads, link, loop_queue, _on_state_update, called, decoding>>

CancelAssignment(p, key) ==
    /\ p \in _connections
    /\ LET r == cancel_assignment(_pending_assignments[p], key)
       IN /\ _pending_assignments' = [_pending_assignments EXCEPT ![p] = r.map]
          /\ last' = Call("cancel_assignment", p, key, RetBool(r.ret), <<>>)
    /\ UNCHANGED <<_connections, _client, _connected, _state, _calibrations, loop_threads, link, loop_queue, _on_state_update, called, decoding>>

----------------------------------------------------------------------------
(* PrinterConnection: the calibration table *)

\* A response handler that adds the profiles to the table (dict.update).
_handle_calibration_response_Merges(table, filaments) ==
    [idx \in DOMAIN table \cup {filaments[i].cali_idx : i \in DOMAIN filaments} |->
        IF \E i \in DOMAIN filaments : filaments[i].cali_idx = idx
          THEN (CHOOSE f \in {filaments[i] : i \in DOMAIN filaments} : f.cali_idx = idx).k_value
          ELSE table[idx]]

\* _handle_calibration_response: the table is built from the response alone.
_handle_calibration_response(table, filaments) ==
    [idx \in {filaments[i].cali_idx : i \in DOMAIN filaments} |->
        (CHOOSE f \in {filaments[i] : i \in DOMAIN filaments} : f.cali_idx = idx).k_value]

\* A calibration-query response arrives on a live session.
HandleCalibrationResponse(p, filaments) ==
    /\ loop_threads[p] > 0
    /\ link[p] = "up"
    /\ _calibrations' = [_calibrations EXCEPT ![p] = _handle_calibration_response(@, filaments)]
    /\ last' = Call("_handle_calibration_response", p, filaments, RetNone, <<>>)
    /\ UNCHANGED <<_connections, _client, _connected, _state, _pending_assignments, loop_threads, link, loop_queue, _on_state_update, called, decoding>>

----------------------------------------------------------------------------
(* PrinterConnection: the command operations *)

\* What client.publish can do with a command: accept it (rc 0), refuse it
\* (another rc), or raise.
PublishOutcomes == {"accepted", "refused", "raises"}

\* The command each operation puts in its envelope.
CommandOf ==
    [set_filament |-> "ams_filament_setting", set_calibration |-> "extrusion_cali_sel",
     set_k_value |-> "extrusion_cali_set", reset_slot |-> "ams_get_rfid"]

\* A command operation that reports success whatever publish returned.
PublishCommand_IgnoresResult(p, command, client, live, outcome) ==
    IF ~(client /\ live) THEN [ret |-> FALSE, pub |-> <<>>]
    ELSE [ret |-> TRUE, pub |-> <<[topic |-> p, command |-> command]>>]

\* The body the command operations share: nothing is published without a
\* live session; otherwise the envelope is handed to client.publish on
\* device/<serial>/request and the result says whether it was accepted.
PublishCommand(p, command, client, live, outcome) ==
    IF ~(client /\ live) THEN [ret |-> FALSE, pub |-> <<>>]
    ELSE [ret |-> outcome = "accepted", pub |-> <<[topic |-> p, command |-> command]>>]

\* A command operation `op` called on connection p.
CommandCall(op, p, outcome) ==
    /\ last' = Call(op, p, outcome,
                    RetBool(PublishCommand(p, CommandOf[op], _client[p], connected(p), outcome).ret),
                    PublishCommand(p, CommandOf[op], _client[p], connected(p), outcome).pub)
    /\ UNCHANGED <<_connections, _client, _connected, _state, _pending_assignments, _calibrations, loop_threads, link, loop_queue, _on_state_update, called, decoding>>

SetFilament(p, outcome) == CommandCall("set_filament", p, outcome)
SetCalibration(p, outcome) == CommandCall("set_calibration", p, outcome)
SetKValue(p, outcome) == CommandCall("set_k_value", p, outcome)
ResetSlot(p, outcome) == CommandCall("reset_slot", p, outcome)

----------------------------------------------------------------------------
(* PrinterManager: the queries and the subscriber *)

\* PrinterManager.is_connected(serial)
is_connected(connections, flags, serial) ==
    IF serial \in connections THEN flags[serial] ELSE FALSE

\* PrinterManager.get_state(serial): the connection's state object, or None.
get_state(connections, states, serial) ==
    IF serial \in connections THEN states[serial] ELSE JNull

\* get_connection_statuses listing only the connections that are live.
get_connection_statuses_LiveOnly(connections, flags) == [serial \in {s \in connections : flags[s]} |-> TRUE]

\* PrinterManager.get_connection_statuses()
get_connection_statuses(connections, flags) == [serial \in connections |-> flags[serial]]

\* set_state_callback keeping the subscriber it already has.
SetStateCallback_KeepsFirst(callback) ==
    /\ _on_state_update' = IF _on_state_update = NoCallback THEN callback ELSE _on_state_update
    /\ last' = Call("set_state_callback", "", callback, RetNone, <<>>)
    /\ UNCHANGED <<_connections, _client, _connected, _state, _pending_assignments, _calibrations, loop_threads, link, loop_queue, called, decoding>>

\* PrinterManager.set_state_callback(callback)
SetStateCallback(callback) ==
    /\ _on_state_update' = callback
    /\ last' = Call("set_state_callback", "", callback, RetNone, <<>>)
    /\ UNCHANGED <<_connections, _client, _connected, _state, _pending_assignments, _calibrations, loop_threads, link, loop_queue, called, decoding>>

\* A request handler calls get_state and reads the object it was given.
GetState(p) ==
    /\ last' = Call("get_state", p, <<>>, get_state(_connections, _state, p), <<>>)
    /\ UNCHANGED <<_connections, _client, _connected, _state, _pending_assignments, _calibrations, loop_threads, link, loop_queue, _on_state_update, called, decoding>>

\* A request handler calls is_connected.
IsConnected(p) ==
    /\ last' = Call("is_connected", p, <<>>, RetBool(is_connected(_connections, _connected, p)), <<>>)
    /\ UNCHANGED <<_connections, _client, _connected, _state, _pending_assignments, _calibrations, loop_threads, link, loop_queue, _on_state_update, called, decoding>>

\* A request handler calls get_connection_statuses.
GetConnectionStatuses ==
    /\ last' = Call("get_connection_statuses", "", <<>>, [k |-> "dict", d |-> get_connection_statuses(_connections, _connected)], <<>>)
    /\ UNCHANGED <<_connections, _client, _connected, _state, _pending_assignments, _calibrations, loop_threads, link, loop_queue, _on_state_update, called, decoding>>

----------------------------------------------------------------------------
(* PrinterConnection: _on_message statement by statement *)

\* Lines 105-124 reach the first assignment: the payload is JSON with a
\* print section.
EntersDecode(msg) ==
    /\ JsonLoads(msg).error = ""
    /\ ~InRaises(JsonLoads(msg).val)
    /\ In("print", JsonLoads(msg).val)
    /\ ~IndexRaises(JsonLoads(msg).val)

\* Line 124: print_data = payload["print"]
PrintData(msg) == Index(JsonLoads(msg).val, "print")

\* _on_message taking a lock that all the connections share.
BeginDecode_SharedLock(p, msg) ==
    /\ loop_threads[p] > 0
    /\ link[p] = "up"
    /\ \A q \in Serial : decoding[q] = Idle
    /\ EntersDecode(msg)
    /\ decoding' = [decoding EXCEPT ![p] = [i |-> 1, print_data |-> PrintData(msg), before |-> _state[p]]]
    /\ UNCHANGED <<_connections, _client, _connected, _state, _pending_assignments, _calibrations, loop_threads, link, loop_queue, last, _on_state_update, called>>

\* The network thread of p enters _on_message with a report and reaches
\* line 127.  The thread runs one callback at a time.
BeginDecode(p, msg) ==
    /\ loop_threads[p] > 0
    /\ link[p] = "up"
    /\ decoding[p] = Idle
    /\ EntersDecode(msg)
    /\ decoding' = [decoding EXCEPT ![p] = [i |-> 1, print_data |-> PrintData(msg), before |-> _state[p]]]
    /\ UNCHANGED <<_connections, _client, _connected, _state, _pending_assignments, _calibrations, loop_threads, link, loop_queue, last, _on_state_update, called>>

\* What the thread does with the result r of its next statement: it goes on
\* to the following one, or the raise ends _handle_message and an except
\* clause of _on_message ends the callback.
AfterStatement(p, r) ==
    /\ _state' = [_state EXCEPT ![p] = r.st]
    /\ decoding' = [decoding EXCEPT ![p] = IF r.exc THEN Idle ELSE [@ EXCEPT !.i = @ + 1]]
    /\ loop_threads' = [loop_threads EXCEPT ![p] =
            IF r.exc /\ ~OnMessageCatches("Exception") THEN @ - 1 ELSE @]
    /\ last' = IF r.exc THEN Call("_on_message", p, decoding[p].print_data,
                                   IF OnMessageCatches("Exception") THEN RetNone ELSE RetRaise, <<>>)
               ELSE last

\* A decode whose statements also drop the staged assignment of every slot
\* the state shows as loaded, whether or not the slot was empty before.
DecodeStep_ConsumesLoaded(p) ==
    /\ decoding[p].i \in 1..6
    /\ AfterStatement(p, Statement(decoding[p].i, _state[p], decoding[p].print_data))
    /\ _pending_assignments' = [_pending_assignments EXCEPT ![p] =
            [key \in {k \in DOMAIN @ : \A unit \in {_state'[p].ams_units[n] : n \in DOMAIN _state'[p].ams_units} :
                        \A tray \in {unit.trays[m] : m \in DOMAIN unit.trays} :
                            <<tray.ams_id, tray.tray_id>> = <<JInt(k[1]), JInt(k[2])>> =>
                                tray.tray_type \in {JNull, JStr("")}} |-> @[key]]]
    /\ UNCHANGED <<_connections, _client, _connected, _calibrations, link, loop_queue, _on_state_update, called>>

\* The network thread of p runs the next statement of lines 127-156 on the
\* state object, which the other threads can read in between.
DecodeStep(p) ==
    /\ decoding[p].i \in 1..6
    /\ AfterStatement(p, Statement(decoding[p].i, _state[p], decoding[p].print_data))
    /\ UNCHANGED <<_connections, _client, _connected, _pending_assignments, _calibrations, link, loop_queue, _on_state_update, called>>

\* A decode that ends by publishing the filament command of every slot it
\* took from empty to loaded, without looking the slot up in the store.
FinishDecode_PublishesUnchecked(p) ==
    /\ decoding[p].i = 7
    /\ Len(loop_queue) < MaxQueue
    /\ loop_queue' = call_soon_threadsafe(loop_queue, p)
    /\ decoding' = [decoding EXCEPT ![p] = Idle]
    /\ last' = Call("_on_message", p, decoding[p].print_data, RetNone,
                    IF decoding[p].before.ams_units # _state[p].ams_units
                      THEN <<[topic |-> p, command |-> "ams_filament_setting"]>> ELSE <<>>)
    /\ UNCHANGED <<_connections, _client, _connected, _state, _pending_assignments, _calibrations, loop_threads, link, _on_state_update, called>>

\* Lines 158-164: the decode ends by scheduling the notification.
FinishDecode(p) ==
    /\ decoding[p].i = 7
    /\ Len(loop_queue) < MaxQueue
    /\ loop_queue' = call_soon_threadsafe(loop_queue, p)
    /\ decoding' = [decoding EXCEPT ![p] = Idle]
    /\ last' = Call("_on_message", p, decoding[p].print_data, RetNone, <<>>)
    /\ UNCHANGED <<_connections, _client, _connected, _state, _pending_assignments, _calibrations, loop_threads, link, _on_state_update, called>>

----------------------------------------------------------------------------
(* Specifications *)

\* Every operation, on the printers P, with staging inputs Keys and Sp.
Step(P, Keys, Sp) ==
    \/ \E p \in P, ok \in BOOLEAN : ManagerConnect(p, ok)
    \/ \E p \in P : ManagerDisconnect(p)
    \/ ManagerDisconnectAll
    \/ RunCallback
    \/ \E p \in P, rc \in ReasonCodes : OnConnect(p, rc)
    \/ \E p \in P : OnDisconnect(p)
    \/ \E p \in P, msg \in Messages : OnMessage(p, msg)
    \/ \E p \in P, key \in Keys, spool_id \in Sp : StageAssignment(p, key, spool_id)
    \/ \E p \in P, key \in Keys : CancelAssignment(p, key)

\* The registry with all its printers; one slot and one spool are staged.
Next == Step(Serial, {<<0, 0>>}, {"S1"})

Spec == Init /\ [][Next]_vars

\* One connection, with every slot key and spool staged.
NextConn == Step({"P1"}, SlotKeys, Spools)

SpecConn == Init /\ [][NextConn]_vars

\* One connection and the decoder's messages.
NextDecode ==
    \/ \E ok \in BOOLEAN : ManagerConnect("P1", ok)
    \/ ManagerDisconnect("P1")
    \/ RunCallback
    \/ \E rc \in ReasonCodes : OnConnect("P1", rc)
    \/ OnDisconnect("P1")
    \/ \E msg \in DecodeMessages : OnMessage("P1", msg)

SpecDecode == Init /\ [][NextDecode]_vars

\* One connection, a status report and the command operations.
NextCommand ==
    \/ \E ok \in BOOLEAN : ManagerConnect("P1", ok)
    \/ ManagerDisconnect("P1")
    \/ RunCallback
    \/ \E rc \in ReasonCodes : OnConnect("P1", rc)
    \/ OnDisconnect("P1")
    \/ OnMessage("P1", GcodeReport)
    \/ \E outcome \in PublishOutcomes : SetFilament("P1", outcome)
    \/ \E outcome \in PublishOutcomes : SetCalibration("P1", outcome)
    \/ \E outcome \in PublishOutcomes : SetKValue("P1", outcome)
    \/ \E outcome \in PublishOutcomes : ResetSlot("P1", outcome)

SpecCommand == Init /\ [][NextCommand]_vars

\* One connection, calibration-query responses and reports of a tray that
\* refers to a calibration index.
NextCalibration ==
    \/ \E ok \in BOOLEAN : ManagerConnect("P1", ok)
    \/ ManagerDisconnect("P1")
    \/ ManagerDisconnectAll
    \/ RunCallback
    \/ \E rc \in ReasonCodes : OnConnect("P1", rc)
    \/ OnDisconnect("P1")
    \/ \E msg \in CalibrationMessages : OnMessage("P1", msg)
    \/ \E filaments \in CalibrationResponses : HandleCalibrationResponse("P1", filaments)

SpecCalibration == Init /\ [][NextCalibration]_vars

\* Both printers, with status reports decoded in bursts.
NextOrder ==
    \/ \E p \in Serial, ok \in BOOLEAN : ManagerConnect(p, ok)
    \/ \E p \in Serial : ManagerDisconnect(p)
    \/ RunCallback
    \/ \E p \in Serial : OnConnect(p, 0)
    \/ \E p \in Serial : OnDisconnect(p)
    \/ \E p \in Serial, msg \in {GcodeReport, StatusDelta} : OnMessageBurst(p, msg)

SpecOrder == Init /\ [][NextOrder]_vars

\* A full report and two deltas.
RaceMessages == {FullReport, ProgressDelta, StatusDelta}

\* One connection whose reports are decoded statement by statement while a
\* request handler reads its state.
NextRace ==
    \/ \E ok \in BOOLEAN : ManagerConnect("P1", ok)
    \/ RunCallback
    \/ \E rc \in ReasonCodes : OnConnect("P1", rc)
    \/ OnDisconnect("P1")
    \/ \E msg \in RaceMessages : BeginDecode("P1", msg)
    \/ DecodeStep("P1")
    \/ FinishDecode("P1")
    \/ GetState("P1")

SpecRace == Init /\ [][NextRace]_vars

\* Both printers, each with its own network thread decoding statement by
\* statement, and an assignment staged on either.
NextParallel ==
    \/ \E p \in Serial, ok \in BOOLEAN : ManagerConnect(p, ok)
    \/ RunCallback
    \/ \E p \in Serial : OnConnect(p, 0)
    \/ \E p \in Serial : OnDisconnect(p)
    \/ \E p \in Serial : BeginDecode(p, GcodeReport)
    \/ \E p \in Serial : DecodeStep(p)
    \/ \E p \in Serial : FinishDecode(p)
    \/ \E p \in Serial : StageAssignment(p, <<0, 0>>, "S1")

SpecParallel == Init /\ [][NextParallel]_vars

\* The registry with both printers, a subscriber that is registered and
\* replaced, and status reports.
NextRegistry ==
    \/ \E p \in Serial, ok \in BOOLEAN : ManagerConnect(p, ok)
    \/ \E p \in Serial : ManagerDisconnect(p)
    \/ ManagerDisconnectAll
    \/ \E callback \in Callbacks : SetStateCallback(callback)
    \/ RunCallback
    \/ \E p \in Serial, rc \in ReasonCodes : OnConnect(p, rc)
    \/ \E p \in Serial : OnDisconnect(p)
    \/ \E p \in Serial : OnMessage(p, GcodeReport)

SpecRegistry == Init /\ [][NextRegistry]_vars

\* Slot (0, 0) reported empty and with two materials.
SlotMessages == {EmptySlotReport, LoadedSlotReport, PetgSlotReport}

\* One connection whose slot reports are decoded statement by statement
\* while request handlers stage and cancel an assignment for the slot.
NextTrigger ==
    \/ \E ok \in BOOLEAN : ManagerConnect("P1", ok)
    \/ RunCallback
    \/ OnConnect("P1", 0)
    \/ OnDisconnect("P1")
    \/ \E msg \in SlotMessages : BeginDecode("P1", msg)
    \/ DecodeStep("P1")
    \/ FinishDecode("P1")
    \/ StageAssignment("P1", <<0, 0>>, "S1")
    \/ CancelAssignment("P1", <<0, 0>>)

SpecTrigger == Init /\ [][NextTrigger]_vars

\* Both printers with a subscriber: a status report, a message of another
\* namespace and a report that fails to decode.  The event loop runs the
\* callbacks it was given: a scheduled notification does not wait for ever.
NextNotify ==
    \/ \E p \in Serial, ok \in BOOLEAN : ManagerConnect(p, ok)
    \/ \E callback \in Callbacks : SetStateCallback(callback)
    \/ RunCallback
    \/ \E p \in Serial : OnConnect(p, 0)
    \/ \E p \in Serial : OnDisconnect(p)
    \/ \E p \in Serial, msg \in {GcodeReport, OtherNamespace, BadShapeReport} : OnMessage(p, msg)

SpecNotify == Init /\ [][NextNotify]_vars /\ WF_vars(RunCallback)

\* One connection and reports of one unit with every info value.
NextExtruder ==
    \/ \E ok \in BOOLEAN : ManagerConnect("P1", ok)
    \/ ManagerDisconnect("P1")
    \/ RunCallback
    \/ \E rc \in ReasonCodes : OnConnect("P1", rc)
    \/ OnDisconnect("P1")
    \/ \E msg \in InfoMessages : OnMessage("P1", msg)

SpecExtruder == Init /\ [][NextExtruder]_vars

\* Two connections, their transport events, and the three queries.
NextQueries ==
    \/ \E p \in Serial, ok \in BOOLEAN : ManagerConnect(p, ok)
    \/ \E p \in Serial : ManagerDisconnect(p)
    \/ \E p \in Serial : OnConnect(p, 0)
    \/ \E p \in Serial : OnDisconnect(p)
    \/ OnMessage("P1", GcodeReport)
    \/ \E p \in Serial : IsConnected(p)
    \/ \E p \in Serial : GetState(p)
    \/ GetConnectionStatuses

SpecQueries == Init /\ [][NextQueries]_vars

\* Two connections, one subscriber slot, and on each connection the two
\* reports of one print job, decoded faster than the event loop delivers.
NextDelivery ==
    \/ \E p \in Serial, ok \in BOOLEAN : ManagerConnect(p, ok)
    \/ \E callback \in Callbacks : SetStateCallback(callback)
    \/ RunCallback
    \/ \E p \in Serial : OnConnect(p, 0)
    \/ \E p \in Serial : OnDisconnect(p)
    \/ \E p \in Serial : JobReport(p)

SpecDelivery == Init /\ [][NextDelivery]_vars

\* Two connections with every registry operation that adds or removes an
\* entry, refused acknowledgements, drops, and reports that fail to decode.
NextMembership ==
    \/ \E p \in Serial, ok \in BOOLEAN : ManagerConnect(p, ok)
    \/ \E p \in Serial : ManagerDisconnect(p)
    \/ ManagerDisconnectAll
    \/ \E p \in Serial, rc \in ReasonCodes : OnConnect(p, rc)
    \/ \E p \in Serial : OnDisconnect(p)
    \/ \E p \in Serial, msg \in {GcodeReport, BadShapeReport, ListPayload, BadJson} : OnMessage(p, msg)

SpecMembership == Init /\ [][NextMembership]_vars

\* One connection and reports with and without a unit list.
NextUnits ==
    \/ \E ok \in BOOLEAN : ManagerConnect("P1", ok)
    \/ RunCallback
    \/ OnConnect("P1", 0)
    \/ OnDisconnect("P1")
    \/ \E msg \in UnitMessages : OnMessage("P1", msg)

SpecUnits == Init /\ [][NextUnits]_vars

----------------------------------------------------------------------------
(* Properties *)

\* The trays the state holds for slot key = (unit id, slot id).
SlotTrays(st, key) ==
    {t \in UNION {{st.ams_units[i].trays[j] : j \in DOMAIN st.ams_units[i].trays} :
                    i \in DOMAIN st.ams_units} :
        t.ams_id = JInt(key[1]) /\ t.tray_id = JInt(key[2])}

\* A slot is empty when its material type is null or empty, loaded otherwise.
SlotEmpty(st, key) == \A t \in SlotTrays(st, key) : t.tray_type \in {JNull, JStr("")}
SlotLoaded(st, key) == \E t \in SlotTrays(st, key) : t.tray_type \notin {JNull, JStr("")}

\* The commands of a staged assignment among those published.
StagedCommands(pub) ==
    {i \in DOMAIN pub : pub[i].command \in {"ams_filament_setting", "extrusion_cali_sel"}}

\* The step is the operation op on printer p.
IsStep(op, p) == last'.op = op /\ last'.serial = p

\* C1: no identifier ever has a second session, and a connect call for an
\* identifier the registry already holds changes neither the registry nor
\* that connection.
C1_ConnectIdempotent ==
    [][/\ \A p \in Serial : loop_threads'[p] <= 1
       /\ \A p \in Serial : IsStep("connect", p) /\ p \in _connections =>
            /\ last'.ret = RetNone
            /\ UNCHANGED <<_connections, _client, _connected, _state, _pending_assignments, _calibrations, loop_threads, link, loop_queue>>]_vars

\* C1: connect was called for an identifier whose connection is live.
C1_Witness ==
    /\ last.op = "connect"
    /\ last.ret = RetNone
    /\ _connected[last.serial]
    /\ loop_threads[last.serial] = 1

\* C2: a connect whose transport step or authentication step failed leaves
\* no connection for that identifier in the registry.
C2_ConnectFailureSurfaced ==
    /\ (last.op = "connect" /\ last.ret = RetRaise) => last.serial \notin _connections
    /\ (last.op = "_on_connect" /\ last.arg # 0) => last.serial \notin _connections

\* C3: a decode in which a slot with a staged assignment is still empty keeps
\* that assignment as it was and publishes no command for it.
C3_StagedRetention ==
    [][\A p \in Serial, key \in SlotKeys :
        (/\ IsStep("_on_message", p)
         /\ key \in DOMAIN _pending_assignments[p]
         /\ SlotEmpty(_state[p], key)
         /\ SlotEmpty(_state'[p], key)) =>
            /\ key \in DOMAIN _pending_assignments'[p]
            /\ _pending_assignments'[p][key] = _pending_assignments[p][key]
            /\ StagedCommands(last'.pub) = {}]_vars

\* C3: an empty-slot report was decoded while slot (0, 0) had an assignment.
C3_Witness ==
    /\ last.op = "_on_message"
    /\ last.arg = EmptySlotReport
    /\ <<0, 0>> \in DOMAIN _pending_assignments[last.serial]
    /\ SlotTrays(_state[last.serial], <<0, 0>>) # {}
    /\ SlotEmpty(_state[last.serial], <<0, 0>>)

\* C4: on a connected connection, a decode that takes a slot with a staged
\* assignment from empty to loaded publishes at least one command and
\* removes the assignment.
C4_StagedExecution ==
    [][\A p \in Serial, key \in SlotKeys :
        (/\ IsStep("_on_message", p)
         /\ _connected[p]
         /\ key \in DOMAIN _pending_assignments[p]
         /\ SlotEmpty(_state[p], key)
         /\ SlotLoaded(_state'[p], key)) =>
            /\ key \notin DOMAIN _pending_assignments'[p]
            /\ Len(last'.pub) >= 1]_vars

\* C5: staging leaves exactly one entry for the slot, holding the values just
\* staged, adds no other entry and changes no other entry.
C5_StageOverwrites ==
    [][\A p \in Serial, key \in SlotKeys, spool_id \in Spools :
        (IsStep("stage_assignment", p) /\ last'.arg = <<key, spool_id>>) =>
            /\ last'.ret = RetBool(TRUE)
            /\ DOMAIN _pending_assignments'[p] = DOMAIN _pending_assignments[p] \cup {key}
            /\ _pending_assignments'[p][key] = PendingAssignment(spool_id)
            /\ \A k \in DOMAIN _pending_assignments[p] \ {key} :
                    _pending_assignments'[p][k] = _pending_assignments[p][k]
            /\ \A q \in Serial \ {p} : _pending_assignments'[q] = _pending_assignments[q]]_vars

\* C5: both slots hold an assignment and slot (0, 0) was staged last, with
\* the second spool.
C5_Witness ==
    /\ last.op = "stage_assignment"
    /\ last.arg = <<<<0, 0>>, "S2">>
    /\ DOMAIN _pending_assignments[last.serial] = SlotKeys
    /\ _pending_assignments[last.serial][<<0, 0>>] = PendingAssignment("S2")

\* C6: cancelling a slot that has no assignment returns false and changes no
\* assignment map.
C6_CancelAbsent ==
    [][\A p \in Serial, key \in SlotKeys :
        (/\ IsStep("cancel_assignment", p)
         /\ last'.arg = key
         /\ key \notin DOMAIN _pending_assignments[p]) =>
            /\ last'.ret = RetBool(FALSE)
            /\ UNCHANGED _pending_assignments]_vars

\* C6: a cancel returned false on a connection that holds an assignment for
\* another slot.
C6_Witness ==
    /\ last.op = "cancel_assignment"
    /\ last.ret = RetBool(FALSE)
    /\ last.arg \notin DOMAIN _pending_assignments[last.serial]
    /\ DOMAIN _pending_assignments[last.serial] # {}

\* C7: cancelling a slot that has an assignment returns true and removes it
\* alone, and a decode that takes a slot without an assignment from empty to
\* loaded publishes no staged command.
C7_CancelRemoves ==
    [][\A p \in Serial, key \in SlotKeys :
        /\ (/\ IsStep("cancel_assignment", p)
             /\ last'.arg = key
             /\ key \in DOMAIN _pending_assignments[p]) =>
                /\ last'.ret = RetBool(TRUE)
                /\ DOMAIN _pending_assignments'[p] = DOMAIN _pending_assignments[p] \ {key}
                /\ \A k \in DOMAIN _pending_assignments'[p] :
                        _pending_assignments'[p][k] = _pending_assignments[p][k]
        /\ (/\ IsStep("_on_message", p)
             /\ key \notin DOMAIN _pending_assignments[p]
             /\ SlotEmpty(_state[p], key)
             /\ SlotLoaded(_state'[p], key)) =>
                /\ StagedCommands(last'.pub) = {}
                /\ key \notin DOMAIN _pending_assignments'[p]]_vars

\* C7: a cancel returned true on a live connection whose slot is reported
\* empty, so that the slot can still be loaded.
C7_Witness ==
    /\ last.op = "cancel_assignment"
    /\ last.ret = RetBool(TRUE)
    /\ link[last.serial] = "up"
    /\ SlotTrays(_state[last.serial], last.arg) # {}
    /\ SlotEmpty(_state[last.serial], last.arg)

\* C8: connected is true while the live flag is set, still true right after
\* an unexpected drop (no time has passed, so the drop is within any grace
\* window), and false when the live flag is false and no session has dropped.
C8_ConnectivityGrace ==
    \A p \in Serial :
        /\ _connected[p] => connected(p)
        /\ (last.op = "_on_disconnect" /\ last.serial = p) => connected(p)
        /\ (~_connected[p] /\ link[p] \in {"none", "wait_ack"}) => ~connected(p)

\* C9: right after a disconnect call, connected is false for the connection
\* it tore down.
C9_DisconnectClears ==
    /\ last.op = "disconnect" => ~connected(last.serial)
    /\ last.op = "disconnect_all" => \A p \in Serial : ~connected(p)

\* C9: a connection that had decoded reports was disconnected.
C9_Witness ==
    /\ last.op = "disconnect"
    /\ _client[last.serial]
    /\ last.serial \notin _connections
    /\ _state[last.serial].gcode_state # JNull

\* C10: a message whose decoding fails leaves the live flag, the registry and
\* the session as they were and raises nothing into the transport, so the
\* session goes on receiving; and a well-formed report is merged whenever it
\* is decoded.
C10_MalformedHarmless ==
    [][\A p \in Serial :
        /\ (IsStep("_on_message", p) /\ TryHandle(_state[p], last'.arg).error # "") =>
                /\ last'.ret = RetNone
                /\ UNCHANGED <<_connections, _connected, loop_threads, link>>
                /\ loop_threads'[p] > 0 /\ link'[p] = "up"
        /\ (IsStep("_on_message", p) /\ last'.arg = GcodeReport) =>
                _state'[p].gcode_state = JStr("RUNNING")
        /\ (IsStep("_on_message", p) /\ last'.arg = LoadedSlotReport) =>
                SlotLoaded(_state'[p], <<0, 0>>)]_vars

\* C10: a report with a wrongly shaped AMS section was handled on a live,
\* registered connection.
C10_Witness ==
    /\ last.op = "_on_message"
    /\ last.arg = BadShapeReport
    /\ _connected[last.serial]
    /\ last.serial \in _connections

\* The print section of a message, null when it has none.
PrintOf(msg) ==
    IF msg.enc = "json" /\ msg.payload.k = "obj" /\ "print" \in DOMAIN msg.payload.f
      THEN msg.payload.f.print
      ELSE JNull

\* The message is a print-scoped report, and its print section has the key.
IsPrintReport(msg) == PrintOf(msg).k = "obj"
Carries(msg, key) == IsPrintReport(msg) /\ key \in DOMAIN PrintOf(msg).f

\* The layer keys are read from the nested 3D object or from the section.
CarriesLayer(msg, key) ==
    \/ Carries(msg, key)
    \/ /\ Carries(msg, "3D")
       /\ PrintOf(msg).f["3D"].k = "obj"
       /\ key \in DOMAIN PrintOf(msg).f["3D"].f

\* C11: a print-scoped report that omits a top-level field leaves that field
\* of PrinterState as it was, for each of job status, progress, job name,
\* current layer, total layer, unit list and external tray.
C11_StateDeltaMerge ==
    [][\A p \in Serial :
        (IsStep("_on_message", p) /\ IsPrintReport(last'.arg)) =>
            /\ ~Carries(last'.arg, "gcode_state") =>
                    _state'[p].gcode_state = _state[p].gcode_state
            /\ ~Carries(last'.arg, "mc_percent") =>
                    _state'[p].print_progress = _state[p].print_progress
            /\ ~Carries(last'.arg, "subtask_name") =>
                    _state'[p].subtask_name = _state[p].subtask_name
            /\ ~CarriesLayer(last'.arg, "layer_num") =>
                    _state'[p].layer_num = _state[p].layer_num
            /\ ~CarriesLayer(last'.arg, "total_layer_num") =>
                    _state'[p].total_layer_num = _state[p].total_layer_num
            /\ ~Carries(last'.arg, "ams") =>
                    _state'[p].ams_units = _state[p].ams_units
            /\ ~Carries(last'.arg, "vt_tray") =>
                    _state'[p].vt_tray = _state[p].vt_tray]_vars

\* C11: a status delta was decoded into a state whose other fields a full
\* report had set.
C11_Witness ==
    /\ last.op = "_on_message"
    /\ last.arg = StatusDelta
    /\ _state[last.serial].gcode_state = JStr("FINISH")
    /\ _state[last.serial].print_progress = JInt(45)
    /\ _state[last.serial].subtask_name = JStr("test_print.gcode")
    /\ _state[last.serial].layer_num = JInt(50)
    /\ _state[last.serial].total_layer_num = JInt(200)
    /\ _state[last.serial].ams_units # <<>>
    /\ _state[last.serial].vt_tray # JNull

\* The well-formed unit objects of a report's AMS section.
ReportedUnits(msg) ==
    IF /\ Carries(msg, "ams")
       /\ PrintOf(msg).f.ams.k = "obj"
       /\ "ams" \in DOMAIN PrintOf(msg).f.ams.f
       /\ PrintOf(msg).f.ams.f.ams.k = "arr"
      THEN {u \in {PrintOf(msg).f.ams.f.ams.e[i] : i \in DOMAIN PrintOf(msg).f.ams.f.ams.e} :
                u.k = "obj"}
      ELSE {}

\* The tray objects a report carries, each with its (unit id, slot id).
ReportedTrays(msg) ==
    UNION {IF "tray" \in DOMAIN u.f /\ u.f.tray.k = "arr"
             THEN {[key |-> <<_safe_int(Get(u, "id", JNull), JInt(0)).i,
                              _safe_int(Get(u.f.tray.e[j], "id", JNull), JInt(0)).i>>,
                    tray |-> u.f.tray.e[j]] :
                        j \in {i \in DOMAIN u.f.tray.e : u.f.tray.e[i].k = "obj"}}
             ELSE {} : u \in ReportedUnits(msg)}

\* C12: when a report carries a tray for a slot the state already holds and
\* omits a field of it, the tray keeps that field's value: material type,
\* color, filament code, flow coefficient, nozzle temperature bounds.
C12_TrayDeltaMerge ==
    [][\A p \in Serial :
        IsStep("_on_message", p) =>
            \A r \in ReportedTrays(last'.arg) :
            \A old \in SlotTrays(_state[p], r.key) :
            \A new \in SlotTrays(_state'[p], r.key) :
                /\ "tray_type" \notin DOMAIN r.tray.f => new.tray_type = old.tray_type
                /\ "tray_color" \notin DOMAIN r.tray.f => new.tray_color = old.tray_color
                /\ "tray_info_idx" \notin DOMAIN r.tray.f => new.tray_info_idx = old.tray_info_idx
                /\ "k" \notin DOMAIN r.tray.f => new.k_value = old.k_value
                /\ "nozzle_temp_min" \notin DOMAIN r.tray.f =>
                        new.nozzle_temp_min = old.nozzle_temp_min
                /\ "nozzle_temp_max" \notin DOMAIN r.tray.f =>
                        new.nozzle_temp_max = old.nozzle_temp_max]_vars

\* C13: a message without the print namespace leaves PrinterState entirely
\* unchanged and schedules no update, whatever else it contains.
C13_OtherNamespacesIgnored ==
    [][\A p \in Serial :
        (/\ IsStep("_on_message", p)
         /\ last'.arg.enc = "json"
         /\ PrintOf(last'.arg) = JNull) =>
            /\ _state'[p] = _state[p]
            /\ loop_queue' = loop_queue]_vars

\* C13: a message with state-like keys outside the print namespace was
\* handled by a connection whose state a full report had set.
C13_Witness ==
    /\ last.op = "_on_message"
    /\ last.arg = SystemReport
    /\ _state[last.serial].gcode_state = JStr("RUNNING")
    /\ _state[last.serial].print_progress = JInt(45)

\* C14: a command operation returns a boolean and never raises; without a
\* live session it returns false and publishes nothing; when publish refuses
\* or raises it returns false; it returns true only for a single envelope of
\* its command that the transport accepted on the connection's request
\* channel.  It changes nothing else.
C14_CommandResult ==
    [][\A p \in Serial, op \in DOMAIN CommandOf :
        IsStep(op, p) =>
            /\ last'.ret \in {RetBool(TRUE), RetBool(FALSE)}
            /\ ~connected(p) => (last'.ret = RetBool(FALSE) /\ last'.pub = <<>>)
            /\ last'.arg # "accepted" => last'.ret = RetBool(FALSE)
            /\ last'.ret = RetBool(TRUE) =>
                    /\ connected(p)
                    /\ last'.arg = "accepted"
                    /\ last'.pub = <<[topic |-> p, command |-> CommandOf[op]]>>
            /\ UNCHANGED <<_connections, _connected, _state, _pending_assignments, _calibrations, loop_threads, link, loop_queue>>]_vars

\* C14: on a live connection a command was handed to a publish that raised,
\* and the operation returned false.
C14_Witness ==
    /\ last.op = "set_filament"
    /\ last.arg = "raises"
    /\ last.ret = RetBool(FALSE)
    /\ Len(last.pub) = 1
    /\ _connected[last.serial]

\* The flow coefficient the precedence gives a reported tray: the inline
\* value, else the profile of the reported calibration index, else null.
ResolvedK(tray, table) ==
    IF "k" \in DOMAIN tray.f THEN _safe_float(tray.f.k, JNull)
    ELSE IF "cali_idx" \in DOMAIN tray.f /\ tray.f.cali_idx.i \in DOMAIN table
      THEN table[tray.f.cali_idx.i]
    ELSE JNull

\* C15: a decoded tray's flow coefficient is the report's inline value if it
\* has one, otherwise that of the calibration profile with the tray's
\* reported index if there is one, otherwise null.
C15_FlowCoefficientPrecedence ==
    [][\A p \in Serial :
        (IsStep("_on_message", p) /\ TryHandle(_state[p], last'.arg).error = "") =>
            \A r \in ReportedTrays(last'.arg) :
            \A new \in SlotTrays(_state'[p], r.key) :
                new.k_value = ResolvedK(r.tray, _calibrations[p])]_vars

\* The calibration indices of a response.
ResponseIndices(filaments) == {filaments[i].cali_idx : i \in DOMAIN filaments}

ResolvedHumidity(unit) ==
    IF "humidity_raw" \in DOMAIN unit.f THEN _safe_int(unit.f.humidity_raw, JNull)
    ELSE IF "humidity" \in DOMAIN unit.f THEN _safe_int(unit.f.humidity, JNull)
    ELSE JNull

\* The decoded units of the state with the given id.
UnitsWithId(st, id) == {u \in {st.ams_units[i] : i \in DOMAIN st.ams_units} : u.id = id}

\* C16: a decoded unit's humidity is the report's raw humidity field if it
\* has one, otherwise its rounded humidity field, otherwise null; with both
\* in the same report the raw one wins.
C16_HumidityPrecedence ==
    [][\A p \in Serial :
        (IsStep("_on_message", p) /\ TryHandle(_state[p], last'.arg).error = "") =>
            \A r \in ReportedUnits(last'.arg) :
            \A u \in UnitsWithId(_state'[p], _safe_int(Get(r, "id", JNull), JInt(0))) :
                u.humidity = ResolvedHumidity(r)]_vars

\* An attribute of the state as a reader gets it: a state without the
\* attribute gives an AttributeError.
Attr(st, name) == IF name \in DOMAIN st THEN st[name] ELSE [k |-> "AttributeError"]

\* The per-nozzle descriptors and the extruder-state field of a report.
ExtruderSection(msg) == PrintOf(msg).f.device.f.extruder.f
HasExtruderSection(msg) ==
    /\ Carries(msg, "device")
    /\ PrintOf(msg).f.device.k = "obj"
    /\ "extruder" \in DOMAIN PrintOf(msg).f.device.f
    /\ PrintOf(msg).f.device.f.extruder.k = "obj"

\* The descriptor of nozzle `id` (0 is the right nozzle, 1 the left one).
Descriptor(msg, id) ==
    CHOOSE d \in {ExtruderSection(msg).info.e[i] : i \in DOMAIN ExtruderSection(msg).info.e} :
        d.f.id = JInt(id)

\* Packed (unit index << 8) | slot index to unit index * 4 + slot index.
GlobalTray(snow) == (snow \div 256) * 4 + (snow % 256)

\* C17: after a report with a two-element per-nozzle descriptor array, the
\* nozzle count is 2 and the right and left current trays are the global
\* tray indices of the descriptors' packed values (0x0001 gives 1, 0x0102
\* gives 6).
C17_DualNozzleTrays ==
    [][\A p \in Serial :
        (/\ IsStep("_on_message", p)
         /\ HasExtruderSection(last'.arg)
         /\ "info" \in DOMAIN ExtruderSection(last'.arg)
         /\ Len(ExtruderSection(last'.arg).info.e) = 2) =>
            /\ Attr(_state'[p], "nozzle_count") = JInt(2)
            /\ Attr(_state'[p], "tray_now_right") =
                    JInt(GlobalTray(Descriptor(last'.arg, 0).f.snow.i))
            /\ Attr(_state'[p], "tray_now_left") =
                    JInt(GlobalTray(Descriptor(last'.arg, 1).f.snow.i))]_vars

\* C18: after a report with the extruder-state field s, the active extruder
\* index is (s >> 4) & 0xF (0x10 gives 1).
C18_ActiveExtruder ==
    [][\A p \in Serial :
        (/\ IsStep("_on_message", p)
         /\ HasExtruderSection(last'.arg)
         /\ "state" \in DOMAIN ExtruderSection(last'.arg)) =>
            Attr(_state'[p], "active_extruder") =
                JInt((ExtruderSection(last'.arg).state.i \div 16) % 16)]_vars

\* The callbacks scheduled for p, in queue order.
ScheduledFor(queue, p) ==
    LET Mine(e) == e.serial = p IN SelectSeq(queue, Mine)

\* C20: the update delivered for a printer is the one scheduled earliest
\* among those waiting for that printer, the others keep their order, and
\* the update of a newly decoded report goes behind those already waiting:
\* no update overtakes one decoded earlier for the same printer.
C20_UpdateOrder ==
    [][\A p \in Serial :
        /\ IsStep("_handle_state_update", p) =>
                /\ ScheduledFor(loop_queue, p) # <<>>
                /\ last'.arg = Head(ScheduledFor(loop_queue, p)).seq
                /\ ScheduledFor(loop_queue', p) = Tail(ScheduledFor(loop_queue, p))
        /\ IsStep("_on_message", p) =>
                \/ ScheduledFor(loop_queue', p) = ScheduledFor(loop_queue, p)
                \/ /\ Len(ScheduledFor(loop_queue', p)) = Len(ScheduledFor(loop_queue, p)) + 1
                   /\ SubSeq(ScheduledFor(loop_queue', p), 1, Len(ScheduledFor(loop_queue, p)))
                        = ScheduledFor(loop_queue, p)]_vars

\* C20: an update was delivered while a later update for the same printer
\* was still waiting.
C20_Witness ==
    /\ last.op = "_handle_state_update"
    /\ ScheduledFor(loop_queue, last.serial) # <<>>


\* The state a report leaves when all of it is applied to st.
WholeDecode(st, print_data) == DecodePrint(1, Done(st), print_data).st

\* C21: a get_state read made while a report is being decoded sees the
\* connection's state either as it was when the report arrived or with the
\* whole report applied, never with some of its fields only.
C21_SerializedState ==
    [][\A p \in Serial :
        (IsStep("get_state", p) /\ last' # last /\ decoding[p] # Idle) =>
            last'.ret \in {decoding[p].before, WholeDecode(decoding[p].before, decoding[p].print_data)}]_vars


\* C22: while one connection is inside a decode, however long it stays
\* there, another connection with a live session can take up a report and
\* run the statements of its own decode; and a step of one connection's
\* decode leaves the state, the live flag and the staged assignments of
\* every other connection as they were.
C22_ConnectionsIndependent ==
    /\ [](\A p \in Serial : \A q \in Serial \ {p} : decoding[p] # Idle =>
            /\ (loop_threads[q] > 0 /\ link[q] = "up" /\ decoding[q] = Idle) =>
                    ENABLED BeginDecode(q, GcodeReport)
            /\ decoding[q].i \in 1..6 => ENABLED DecodeStep(q))
    /\ [][\A p \in Serial : \A q \in Serial \ {p} : decoding'[p] # decoding[p] =>
            /\ _state'[q] = _state[q]
            /\ _connected'[q] = _connected[q]
            /\ _pending_assignments'[q] = _pending_assignments[q]]_vars

\* C22: both connections are inside a decode at once, each with statements
\* already run, and the other one holds a staged assignment.
C22_Witness ==
    /\ decoding["P1"].i \in 2..6
    /\ decoding["P2"].i \in 2..6
    /\ _state["P2"].gcode_state # JNull
    /\ <<0, 0>> \in DOMAIN _pending_assignments["P1"]


\* C23: the subscriber is called only by the event loop's step that takes a
\* scheduled notification off the head of its queue, for the printer that
\* notification belongs to; the step of the network thread that decodes a
\* report calls no subscriber and leaves the notification at the end of the
\* queue.
C23_ScheduledNotInline ==
    [][/\ called' # called =>
            /\ loop_queue # <<>>
            /\ loop_queue' = Tail(loop_queue)
            /\ last'.op = "_handle_state_update"
            /\ called'.serial = Head(loop_queue).serial
       /\ \A p \in Serial : (IsStep("_on_message", p) /\ _state'[p] # _state[p]) =>
            /\ called' = called
            /\ loop_queue' = Append(loop_queue, Handle(loop_queue, p))]_vars

\* C23: the event loop has just called the registered subscriber for a
\* printer whose report was decoded.
C23_Witness ==
    /\ last.op = "_handle_state_update"
    /\ called.callback \in Callbacks
    /\ called.serial = last.serial
    /\ _state[last.serial].gcode_state = JStr("RUNNING")

\* C24: every _on_connect with reason 0 subscribes to the connection's own
\* report topic and then publishes exactly one pushall on its own request
\* topic; a session comes up by such a step only, and reports are decoded
\* only on a session that is up.
C24_SubscribeThenPushall ==
    [][\A p \in Serial :
        /\ (IsStep("_on_connect", p) /\ last'.arg = 0) =>
                last'.pub = <<[topic |-> p, channel |-> "report", command |-> "subscribe"],
                              [topic |-> p, command |-> "pushall"]>>
        /\ (link'[p] = "up" /\ link[p] # "up") =>
                (IsStep("_on_connect", p) /\ last'.arg = 0 /\ Len(last'.pub) = 2)
        /\ (IsStep("_on_message", p) /\ last' # last) => link[p] = "up"]_vars

\* C24: _on_connect with reason 0 has just brought a session up again on a
\* connection that had decoded a report before.
C24_Witness ==
    /\ last.op = "_on_connect"
    /\ last.arg = 0
    /\ Len(last.pub) = 2
    /\ link[last.serial] = "up"
    /\ _connected[last.serial]
    /\ _state[last.serial].gcode_state = JStr("RUNNING")

\* C25 as claimed: in the step that follows an unexpected drop the live flag
\* of that connection is never set.
C25_NoReconnect ==
    [][\A p \in Serial :
        (last.op = "_on_disconnect" /\ last.serial = p) => ~_connected'[p]]_vars

\* C25: the live flag of a connection goes from false to true only in
\* _on_connect with reason 0, that is when the transport has established a
\* session, its own reconnect after a drop included; no operation of the
\* registry or of the connection sets it, and a connect call for an
\* identifier the registry holds starts no session.
C25_ReconnectOnlyByTransport ==
    [][\A p \in Serial :
        /\ (~_connected[p] /\ _connected'[p]) => (IsStep("_on_connect", p) /\ last'.arg = 0)
        /\ (IsStep("connect", p) /\ p \in _connections) =>
                (loop_threads'[p] = loop_threads[p] /\ link'[p] = link[p])]_vars

\* C25: a session dropped and its connection, still registered and with its
\* network thread running, is not live.
C25_Witness ==
    /\ last.op = "_on_disconnect"
    /\ last.serial \in _connections
    /\ loop_threads[last.serial] = 1
    /\ link[last.serial] = "down"
    /\ ~_connected[last.serial]

\* C26: disconnect(serial) stops the connection and removes its entry, so
\* that is_connected is false, get_state is None and the statuses do not
\* list it, and it leaves the other entries alone; for an identifier the
\* registry does not hold it changes nothing; disconnect_all leaves the
\* registry empty.
C26_DisconnectRemoves ==
    [][/\ \A p \in Serial : IsStep("disconnect", p) =>
            /\ _connections' = _connections \ {p}
            /\ ~is_connected(_connections', _connected', p)
            /\ get_state(_connections', _state', p) = JNull
            /\ p \notin DOMAIN get_connection_statuses(_connections', _connected')
            /\ p \in _connections => (loop_threads'[p] = 0 /\ ~_connected'[p])
            /\ p \notin _connections =>
                    UNCHANGED <<_connections, _client, _connected, _state, _pending_assignments, _calibrations, loop_threads, link, loop_queue, _on_state_update, called, decoding>>
            /\ \A q \in Serial \ {p} :
                    /\ _connected'[q] = _connected[q]
                    /\ _state'[q] = _state[q]
                    /\ loop_threads'[q] = loop_threads[q]
       /\ last'.op = "disconnect_all" =>
            /\ _connections' = {}
            /\ get_connection_statuses(_connections', _connected') = <<>>
            /\ \A p \in Serial : ~is_connected(_connections', _connected', p) /\ loop_threads'[p] = 0]_vars

\* C26: a live connection was disconnected while the other one stayed.
C26_Witness ==
    /\ last.op = "disconnect"
    /\ _client[last.serial]
    /\ last.serial \notin _connections
    /\ \E q \in _connections : is_connected(_connections, _connected, q)

\* C27: registering a subscriber replaces the one registered before, and
\* every call the registry makes for a state update, whichever connection
\* it comes from, goes to the subscriber registered at that moment.
C27_LastRegistrationWins ==
    [][/\ last'.op = "set_state_callback" => _on_state_update' = last'.arg
       /\ called' # called =>
            /\ _on_state_update \in Callbacks
            /\ called'.callback = _on_state_update
       /\ (last'.op = "_handle_state_update" /\ loop_queue # <<>> /\ loop_queue' = Tail(loop_queue)
                /\ _on_state_update # NoCallback) =>
            (/\ called'.callback = _on_state_update
             /\ called'.serial = Head(loop_queue).serial
             /\ called'.seq = Head(loop_queue).seq)]_vars

\* C27: one subscriber was registered and called, then the other one was
\* registered while an update of a connection made before that waits.
C27_Witness ==
    /\ last.op = "set_state_callback"
    /\ called.callback = "state_cb"
    /\ _on_state_update = "other_cb"
    /\ loop_queue # <<>>
    /\ Head(loop_queue).serial \in _connections

\* C28: right after an unexpected drop, which is inside the grace window,
\* is_connected and get_connection_statuses give the connection as
\* connected.
C28_TransientMasked ==
    (last.op = "_on_disconnect" /\ last.serial \in _connections) =>
        /\ is_connected(_connections, _connected, last.serial)
        /\ get_connection_statuses(_connections, _connected)[last.serial]


\* A step of p's decode.
DecodeMoves(p) == decoding'[p] # decoding[p]

\* The step takes slot key of p from empty to loaded.
Inserted(p, key) == SlotEmpty(_state[p], key) /\ SlotLoaded(_state'[p], key)

\* The step publishes a command of a staged assignment.
PublishesStaged == last' # last /\ StagedCommands(last'.pub) # {}

\* C29: a step of a decode in which a slot does not go from empty to loaded
\* (it stays loaded, changes its material, is emptied or stays empty) keeps
\* the slot's staged assignment and, if no slot is inserted into, publishes
\* no staged command; a staged command is published only in a decode step
\* that takes a slot with an assignment from empty to loaded and removes
\* that assignment, so at most once for each staging.
C29_InsertionSoleTrigger ==
    [][\A p \in Serial :
        /\ \A key \in SlotKeys : (DecodeMoves(p) /\ ~Inserted(p, key)) =>
                /\ (key \in DOMAIN _pending_assignments'[p]) = (key \in DOMAIN _pending_assignments[p])
                /\ key \in DOMAIN _pending_assignments[p] =>
                        _pending_assignments'[p][key] = _pending_assignments[p][key]
        /\ (DecodeMoves(p) /\ \A key \in SlotKeys : ~Inserted(p, key)) => ~PublishesStaged
        /\ (PublishesStaged /\ last'.serial = p) =>
                \E key \in SlotKeys :
                    /\ DecodeMoves(p)
                    /\ Inserted(p, key)
                    /\ key \in DOMAIN _pending_assignments[p]
                    /\ key \notin DOMAIN _pending_assignments'[p]]_vars

\* C29: the AMS section of a report has just been decoded; it changed the
\* material of slot (0, 0), which was loaded and has a staged assignment.
C29_Witness ==
    /\ decoding["P1"].i = 6
    /\ SlotLoaded(decoding["P1"].before, <<0, 0>>)
    /\ SlotLoaded(_state["P1"], <<0, 0>>)
    /\ SlotTrays(decoding["P1"].before, <<0, 0>>) # SlotTrays(_state["P1"], <<0, 0>>)
    /\ <<0, 0>> \in DOMAIN _pending_assignments["P1"]

C31_FailedReportDropped ==
    [][\A p \in Serial :
        (IsStep("_on_message", p) /\ last' # last /\ TryHandle(_state[p], last'.arg).error # "") =>
            _state'[p] = _state[p]]_vars


\* The message is a print-scoped report and p's decode of it raises nothing.
DecodesWell(p, msg) == IsPrintReport(msg) /\ TryHandle(_state[p], msg).error = ""

\* C32: the decode of a print-scoped report that succeeds schedules one
\* notification for its printer and calls nobody; a message that is ignored
\* or fails schedules nothing; the event loop's step makes one call of the
\* registered subscriber for the notification it takes, for that printer
\* and with the state the report was merged into; and while a subscriber is
\* registered every scheduled notification leads to that call.
C32_OneCallPerReport ==
    /\ [][\A p \in Serial : IsStep("_on_message", p) =>
            /\ called' = called
            /\ loop_queue' = IF DecodesWell(p, last'.arg)
                               THEN Append(loop_queue, Handle(loop_queue, p))
                               ELSE loop_queue]_vars
    /\ [][(last'.op = "_handle_state_update" /\ _on_state_update # NoCallback) =>
            /\ loop_queue # <<>>
            /\ loop_queue' = Tail(loop_queue)
            /\ called' = [callback |-> _on_state_update, serial |-> Head(loop_queue).serial,
                          seq |-> Head(loop_queue).seq, state |-> _state[Head(loop_queue).serial]]]_vars
    /\ [](called.callback # NoCallback => called.state.gcode_state = JStr("RUNNING"))
    /\ \A p \in Serial :
            (Scheduled(loop_queue, p) # {} /\ _on_state_update # NoCallback)
                ~> (last.op = "_handle_state_update" /\ last.serial = p /\ called.serial = p)

\* C32: the subscriber was called once for a decoded report, with the
\* report merged into the state it was given, and nothing is left waiting.
C32_Witness ==
    /\ last.op = "_handle_state_update"
    /\ called.callback \in Callbacks
    /\ called.serial = last.serial
    /\ called.seq = last.arg
    /\ called.state = _state[last.serial]
    /\ called.state.gcode_state = JStr("RUNNING")
    /\ loop_queue = <<>>


\* Bit k of n in two's complement, and the number bits 8-11 of n spell.
Bit(n, k) == (n \div 2^k) % 2
Bits8to11(n) == Bit(n, 8) + 2 * Bit(n, 9) + 4 * Bit(n, 10) + 8 * Bit(n, 11)

\* What Python gives for each info value: the integer int() makes of it and
\* (info >> 8) & 0xF of that integer, or that it has no integer.
InfoCases ==
    {[value |-> JInt(0), usable |-> TRUE, int |-> 0, extruder |-> 0],
     [value |-> JInt(255), usable |-> TRUE, int |-> 255, extruder |-> 0],
     [value |-> JInt(256), usable |-> TRUE, int |-> 256, extruder |-> 1],
     [value |-> JInt(257), usable |-> TRUE, int |-> 257, extruder |-> 1],
     [value |-> JInt(3840), usable |-> TRUE, int |-> 3840, extruder |-> 15],
     [value |-> JInt(4096), usable |-> TRUE, int |-> 4096, extruder |-> 0],
     [value |-> JInt(4352), usable |-> TRUE, int |-> 4352, extruder |-> 1],
     [value |-> JInt(65535), usable |-> TRUE, int |-> 65535, extruder |-> 15],
     [value |-> JInt(-1), usable |-> TRUE, int |-> -1, extruder |-> 15],
     [value |-> JInt(-256), usable |-> TRUE, int |-> -256, extruder |-> 15],
     [value |-> JInt(-4096), usable |-> TRUE, int |-> -4096, extruder |-> 0],
     [value |-> JStr("512"), usable |-> TRUE, int |-> 512, extruder |-> 2],
     [value |-> JFloat(256700), usable |-> TRUE, int |-> 256, extruder |-> 1],
     [value |-> JStr("abc"), usable |-> FALSE, int |-> 0, extruder |-> 0],
     [value |-> JNull, usable |-> FALSE, int |-> 0, extruder |-> 0],
     [value |-> JArr(<<>>), usable |-> FALSE, int |-> 0, extruder |-> 0]}

\* C33: the unit decoded from a report has as its feeding extruder the
\* number that bits 8-11 of its info integer spell, for every info value
\* that has an integer, and null when the info value has none or the unit
\* carries no info key.
C33_FeedingExtruder ==
    [][\A p \in Serial : \A id \in {"0", "1"} :
        /\ \A c \in InfoCases : (IsStep("_on_message", p) /\ last'.arg = InfoReport(id, c.value)) =>
                /\ Len(_state'[p].ams_units) = 1
                /\ _state'[p].ams_units[1].extruder =
                        IF c.usable THEN JInt(c.extruder) ELSE JNull
                /\ c.usable => c.extruder = Bits8to11(c.int)
        /\ (IsStep("_on_message", p) /\ last'.arg = NoInfoReport(id)) =>
                (Len(_state'[p].ams_units) = 1 /\ _state'[p].ams_units[1].extruder = JNull)]_vars

\* C33: a unit whose info integer has bits above bit 11 set was decoded.
C33_Witness ==
    /\ last.op = "_on_message"
    /\ last.arg = InfoReport("0", JInt(4352))
    /\ _state[last.serial].ams_units[1].extruder = JInt(1)


\* C34: is_connected, get_state and get_connection_statuses change nothing
\* of the registry, the connections, their states or the loop, and
\* get_connection_statuses returns exactly one entry for each identifier of
\* the registry, holding that connection's live flag.
C34_QueriesChangeNothing ==
    /\ [][last'.op \in {"is_connected", "get_state", "get_connection_statuses"} =>
            UNCHANGED <<_connections, _client, _connected, _state, _pending_assignments, _calibrations, loop_threads, link, loop_queue, _on_state_update, called, decoding>>]_vars
    /\ [][last'.op = "get_connection_statuses" =>
            /\ DOMAIN last'.ret.d = _connections
            /\ \A serial \in _connections : last'.ret.d[serial] = _connected[serial]]_vars

\* C34: the statuses of two registered connections, one live and one not.
C34_Witness ==
    /\ last.op = "get_connection_statuses"
    /\ _connections = Serial
    /\ _connected["P1"] /\ ~_connected["P2"]
    /\ DOMAIN last.ret.d = Serial
    /\ last.ret.d["P1"] /\ ~last.ret.d["P2"]


\* C35 as stated: a report decoded while a notification of the same
\* connection waits in the event loop does not alter the state that
\* notification delivers.
C35_DeliversDecodeTimeState ==
    [][\A i \in DOMAIN loop_queue :
        IsStep("_on_message", loop_queue[i].serial) =>
            CurrentState(_state', loop_queue[i]) = CurrentState(_state, loop_queue[i])]_vars

\* C35: the PrinterState a subscriber receives is the connection's state at
\* the moment the notification runs: a report decoded while a notification
\* of the same connection waits is part of what that notification delivers.
C35_DeliversCurrentState ==
    /\ [][(last'.op = "_handle_state_update" /\ _on_state_update # NoCallback) =>
            /\ loop_queue # <<>>
            /\ called'.serial = Head(loop_queue).serial
            /\ called'.state = _state[Head(loop_queue).serial]]_vars
    /\ [][\A i \in DOMAIN loop_queue :
            IsStep("_on_message", loop_queue[i].serial) =>
                CurrentState(_state', loop_queue[i]) = TryHandle(_state[loop_queue[i].serial], last'.arg).st]_vars

\* C35: the notification of the RUNNING report was delivered after the
\* FINISH report had been decoded, whose own notification still waits, and
\* the subscriber was handed FINISH.
C35_Witness ==
    /\ last.op = "_handle_state_update"
    /\ last.serial = "P2"
    /\ called.callback \in Callbacks
    /\ called.serial = "P2" /\ called.seq = 0
    /\ called.state.gcode_state = JStr("FINISH")
    /\ loop_queue = <<[serial |-> "P2", seq |-> 1]>>
    /\ _state["P1"].gcode_state = JStr("RUNNING")


\* C36 as stated: no state-update notification is delivered to the
\* subscriber for an identifier the registry has disconnected.
C36_NoDeliveryAfterDisconnect ==
    [][(last'.op = "_handle_state_update" /\ loop_queue # <<>> /\ loop_queue' = Tail(loop_queue)
            /\ _on_state_update # NoCallback) =>
        Head(loop_queue).serial \in _connections]_vars

\* C36: once the registry's disconnect of an identifier has returned, no
\* further notification is scheduled for it until it is connected again,
\* and disconnect takes nothing out of the event loop: a notification that
\* was scheduled before still reaches the subscriber.
C36_NoSchedulingAfterDisconnect ==
    /\ [][\A p \in Serial : p \notin _connections =>
            Cardinality(Scheduled(loop_queue', p)) <= Cardinality(Scheduled(loop_queue, p))]_vars
    /\ [][last'.op \in {"disconnect", "disconnect_all"} => loop_queue' = loop_queue]_vars
    /\ [][(last'.op = "_handle_state_update" /\ loop_queue # <<>> /\ loop_queue' = Tail(loop_queue)
                /\ _on_state_update # NoCallback /\ Head(loop_queue).serial \notin _connections) =>
            /\ called'.callback = _on_state_update
            /\ called'.serial = Head(loop_queue).serial]_vars

\* C36: the subscriber was called for a connection the registry had
\* disconnected and not connected again.
C36_Witness ==
    /\ last.op = "_handle_state_update"
    /\ last.serial \notin _connections
    /\ loop_threads[last.serial] = 0
    /\ called.callback \in Callbacks
    /\ called.serial = last.serial
    /\ called.seq = last.arg
    /\ called.state.gcode_state = JStr("RUNNING")


\* C37: an acknowledgement with a reason code other than 0 leaves the live
\* flag as it was, which is false, subscribes to nothing and requests no
\* full state; the flag is false after every acknowledgement but one with
\* reason 0, and nothing else turns it true.
C37_RefusedAckInert ==
    [][\A p \in Serial :
        /\ (IsStep("_on_connect", p) /\ last'.arg # 0) =>
                /\ ~_connected[p] /\ ~_connected'[p]
                /\ last'.pub = <<>>
                /\ link'[p] = "down"
        /\ (IsStep("_on_connect", p) /\ _connected'[p]) => last'.arg = 0
        /\ (_connected'[p] /\ ~_connected[p]) => last'.op = "_on_connect"]_vars

\* C37: a refused acknowledgement was delivered to a registered connection,
\* which is not live and has published nothing.
C37_Witness ==
    /\ last.op = "_on_connect"
    /\ last.arg = 5
    /\ last.serial \in _connections
    /\ ~_connected[last.serial]
    /\ last.pub = <<>>


\* The publishes of a step that go to the request channel.
RequestPublishes(pub) == {i \in DOMAIN pub : "channel" \notin DOMAIN pub[i]}

\* C38: every step that publishes on the request channel of a connection
\* is taken with that connection's client existing and leaves its live
\* flag true, and a step that leaves the flag false publishes nothing there.
C38_PublishOnlyWhenLive ==
    [][\A p \in Serial :
        /\ (last'.serial = p /\ RequestPublishes(last'.pub) # {}) => (_client[p] /\ _connected'[p])
        /\ (last'.serial = p /\ last' # last /\ ~_connected'[p]) => RequestPublishes(last'.pub) = {}]_vars

\* C38: the full state was requested in the step that set the live flag.
C38_Witness ==
    /\ last.op = "_on_connect"
    /\ RequestPublishes(last.pub) = {2}
    /\ last.pub[2].command = "pushall"
    /\ _client[last.serial]
    /\ _connected[last.serial]
    /\ link[last.serial] = "up"


\* C39: an identifier enters the registry by a connect that returns and
\* leaves it only by disconnect of that identifier or by disconnect_all; a
\* dropped session, a refused acknowledgement and a report, decodable or
\* not, leave the registry, the entry's client and its network loop as
\* they are.
C39_EntryStaysUntilDisconnect ==
    [][\A p \in Serial :
        /\ (p \in _connections /\ p \notin _connections') =>
                (IsStep("disconnect", p) \/ last'.op = "disconnect_all")
        /\ (p \notin _connections /\ p \in _connections') =>
                (IsStep("connect", p) /\ last'.ret = RetNone)
        /\ (last'.op \in {"_on_disconnect", "_on_connect", "_on_message"} /\ last'.serial = p) =>
                /\ p \in _connections /\ _connections' = _connections
                /\ _client' = _client
                /\ loop_threads' = loop_threads]_vars

\* C39: a report failed to decode on a registered connection, and the
\* identifier is still the registry's only entry with its network loop running.
C39_Witness ==
    /\ last.op = "_on_message"
    /\ last.arg = BadShapeReport
    /\ TryHandle(PrinterState, BadShapeReport).error # ""
    /\ last.serial \in _connections
    /\ _connections = {last.serial}
    /\ loop_threads[last.serial] = 1


\* The unit ids each unit list of a report stands for.
UnitIds ==
    [ids \in UnitLists |->
        CASE ids = <<"0", "1">> -> <<0, 1>>
          [] ids = <<"1", "0">> -> <<1, 0>>
          [] ids = <<"128">> -> <<128>>
          [] ids = <<"1", "1">> -> <<1, 1>>
          [] ids = <<>> -> <<>>]

\* C40: after a report with a unit list is decoded the state's unit list
\* has one unit for each unit of the report, in the report's order, each
\* with that unit's id and its one tray, whatever the list held before;
\* after a report whose AMS section has no unit list, or which has no AMS
\* section, the state's unit list is the one it was.
C40_UnitListReplaced ==
    [][\A p \in Serial :
        /\ \A ids \in UnitLists :
             (IsStep("_on_message", p) /\ last'.arg \in {UnitsReport(ids)} \cup (IF ids = <<"0", "1">> THEN {TwoUnitReport} ELSE {})) =>
                /\ Len(_state'[p].ams_units) = Len(UnitIds[ids])
                /\ \A i \in DOMAIN UnitIds[ids] :
                        /\ _state'[p].ams_units[i].id = JInt(UnitIds[ids][i])
                        /\ Len(_state'[p].ams_units[i].trays) = 1
                        /\ _state'[p].ams_units[i].trays[1].ams_id = JInt(UnitIds[ids][i])
        /\ (IsStep("_on_message", p) /\ last'.arg \in {NoUnitListReport, GcodeReport}) =>
                _state'[p].ams_units = _state[p].ams_units]_vars

\* C40: the report with unit 128 alone was decoded on a connection that had
\* decoded the running job's report with units 0 and 1, and unit 128 is
\* the only unit of the state.
C40_Witness ==
    /\ last.op = "_on_message"
    /\ last.arg = UnitsReport(<<"128">>)
    /\ _state[last.serial].gcode_state = JStr("RUNNING")
    /\ Len(_state[last.serial].ams_units) = 1
    /\ _state[last.serial].ams_units[1].id = JInt(128)
    /\ _state[last.serial].ams_units[1].trays[1].tray_type = JStr("PLA-CF")

====
